---- MODULE Spec2Model ----
(***************************************************************************)
(* A model of aten/src/ATen/native/vulkan/api/Resource.cpp: the Vulkan     *)
(* resource objects (VulkanBuffer, VulkanImage), the sampler cache, and    *)
(* the legacy Resource::Pool with its release lists and recyclable fences. *)
(*                                                                         *)
(* The native world (the Vulkan device and the VMA allocator library) is   *)
(* the record vk: which native objects are alive, which fences are         *)
(* signaled, and a set of events recording native misuse.                  *)
(***************************************************************************)
EXTENDS Integers, Sequences, FiniteSets, TLC

\* ---------------------------------------------------------------- bounds
MaxObjects == 2        \* native buffers/images the runs create
MaxFences == 2         \* native fences the runs create
MaxWaitlist == 2       \* length of a pool's fence wait-list
MaxSamplers == 2       \* native samplers the runs create
MaxAllocators == 2     \* VMA allocators the runs create
MaxThreads == 2        \* threads that call into a sampler cache
MaxMemTypes == 3       \* memory types of the device

\* VK_NULL_HANDLE
Null == 0

Pools == {"a", "b"}
Caches == {"c", "d"}
Threads == 1..MaxThreads
ObjIds == 1..MaxObjects
FenceIds == 1..MaxFences
SamplerIds == 1..MaxSamplers

\* ImageSampler::Properties values used as cache keys: they differ in one
\* field each, the first and the last of the four.
Props ==
  { [filter |-> 0, mipmap_mode |-> 0, address_mode |-> 0, border_color |-> 0],
    [filter |-> 1, mipmap_mode |-> 0, address_mode |-> 0, border_color |-> 0],
    [filter |-> 0, mipmap_mode |-> 0, address_mode |-> 0, border_color |-> 1] }

VARIABLES
  vk,      \* the native world
  pool,    \* Resource::Pool objects: [Pools -> record of the pool's members]
  pc,      \* position of the thread that drives the pools
  held,    \* Resource::Buffer / Resource::Image values the caller holds
  ret,     \* outcome of the last call that completed
  hist,    \* history: what was released, and under which conditions
  sc,      \* SamplerCache objects: [Caches -> record of the cache's members]
  thr,     \* the threads that call into the sampler cache
  seen,    \* history of the sampler cache: constructions and returned handles
  vbuf,    \* VulkanBuffer objects
  vimg,    \* VulkanImage objects
  mm,      \* MemoryMap objects and legacy map handles
  lin,     \* Linear policy objects: [Policies -> the sub-pool list pools_]
  vfn      \* VulkanFence objects

poolVars == <<pool, pc, hist>>
cacheVars == <<sc, thr, seen>>
objVars == <<vbuf, vimg>>
mapVars == <<mm>>
policyVars == <<lin>>
fenceVars == <<vfn>>
vars == <<vk, held, ret, poolVars, cacheVars, objVars, mapVars, policyVars, fenceVars>>

\* ------------------------------------------------------------ sequences
Range(s) == { s[i] : i \in 1..Len(s) }

\* std::find: the first index of x in s (0 when absent)
FindFirst(s, x) ==
  IF x \in Range(s) THEN CHOOSE i \in 1..Len(s) : s[i] = x /\ \A j \in 1..(i-1) : s[j] # x
  ELSE 0

\* std::vector::erase(iterator)
\* std::count: the number of entries of s equal to x.
Count(s, x) == Cardinality({ i \in 1..Len(s) : s[i] = x })

EraseAt(s, i) == [j \in 1..(Len(s) - 1) |-> IF j < i THEN s[j] ELSE s[j + 1]]

\* ------------------------------------------------------ the native world
\* Sampler cache contents: a set of entries [key, handle].
NoCache == {}

VkInit ==
  [ nobj |-> 0, objects |-> {}, allocations |-> {}, views |-> {},
    allocatorOf |-> [i \in ObjIds |-> Null],
    nfence |-> 0, fences |-> {}, signaled |-> {}, pending |-> {},
    nsampler |-> 0, samplers |-> {},
    nallocator |-> 0, allocators |-> {},
    events |-> {} ]

\* vkCreateBuffer / vkCreateImage: native object n comes to life.
vkCreateObject(v, n) == [v EXCEPT !.nobj = n, !.objects = @ \cup {n}]

\* vmaAllocateMemory: allocation n, made through allocator a.
vmaAllocateMemory(v, a, n) ==
  [v EXCEPT !.allocations = @ \cup {n}, !.allocatorOf[n] = a]

\* vmaCreateBuffer / vmaCreateImage: object and allocation in one call.
vmaCreateObject(v, a, n) == vmaAllocateMemory(vkCreateObject(v, n), a, n)

vkCreateImageView(v, n) == [v EXCEPT !.views = @ \cup {n}]

\* vmaDestroyBuffer / vmaDestroyImage(allocator, handle, allocation).  Null
\* arguments are accepted; a call with a null handle is recorded, and so is a destroy of a
\* handle that is no longer alive, a destroy through another allocator than
\* the one that made the allocation, and a destroy through a dead allocator.
vmaDestroy(v, allocator, handle, allocation) ==
  [v EXCEPT
     !.objects = @ \ {handle},
     !.allocations = @ \ {allocation},
     !.events = @
       \cup (IF handle = Null THEN {<<"null_destroy_call", allocation>>} ELSE {})
       \cup (IF handle # Null /\ handle \notin v.objects
               THEN {<<"double_destroy", handle>>} ELSE {})
       \cup (IF allocation # Null /\ allocator # v.allocatorOf[allocation]
               THEN {<<"wrong_allocator", allocation>>} ELSE {})
       \cup (IF handle # Null /\ allocator \notin v.allocators
               THEN {<<"dead_allocator", handle>>} ELSE {})
       \cup (IF handle # Null /\ handle \in v.views
               THEN {<<"image_before_view", handle>>} ELSE {})]

\* vmaGetAllocatorInfo + vkDestroyImageView
vkDestroyImageView(v, allocator, view) ==
  [v EXCEPT
     !.views = @ \ {view},
     !.events = @
       \cup (IF view \notin v.views THEN {<<"double_destroy_view", view>>} ELSE {})
       \cup (IF allocator \notin v.allocators
               THEN {<<"dead_allocator", view>>} ELSE {})]

\* vkDestroyFence on each of a set of fences
vkDestroyFences(v, fs) ==
  [v EXCEPT
     !.fences = @ \ fs, !.signaled = @ \ fs, !.pending = @ \ fs,
     !.events = @ \cup { <<"fence_destroyed_pending", f>> : f \in (fs \cap v.pending) }]

vkResetFences(v, fs) == [v EXCEPT !.signaled = @ \ fs]

vkDestroySamplers(v, hs) == [v EXCEPT !.samplers = @ \ hs]

vmaDestroyAllocator(v, a) == [v EXCEPT !.allocators = @ \ {a}]

\* ------------------------------------------------- legacy release functions
\* A Resource::Buffer or Resource::Image value is the record
\*   [kind, handle, view, sampler, allocation, allocator].
release_buffer(v, buffer) ==
  vmaDestroy(v, buffer.allocator, buffer.handle, buffer.allocation)

\* A release_image that destroys the image before its view.
ReleaseImageThenView(v, image) ==
  LET v1 == vmaDestroy(v, image.allocator, image.handle, image.allocation)
  IN IF image.view # Null
       THEN vkDestroyImageView(v1, image.allocator, image.view)
       ELSE v1

release_image(v, image) ==
  LET v1 == IF image.view # Null
              THEN vkDestroyImageView(v, image.allocator, image.view)
              ELSE v
  IN vmaDestroy(v1, image.allocator, image.handle, image.allocation)

\* Destroying the Handle<Buffer, ...> / Handle<Image, ...> entries of a release
\* list runs each entry's release function, front to back.
RECURSIVE ReleaseList(_, _)
ReleaseList(v, list) ==
  IF list = <<>> THEN v
  ELSE LET e == Head(list)
           v1 == IF e.kind = "buffer" THEN release_buffer(v, e) ELSE release_image(v, e)
       IN ReleaseList(v1, Tail(list))

Handles(list) == { list[i].handle : i \in 1..Len(list) }

\* ------------------------------------------------------- sampler lookup
\* operator==(ImageSampler::Properties, ImageSampler::Properties)
PropsEq(k1, k2) ==
  /\ k1.filter = k2.filter
  /\ k1.mipmap_mode = k2.mipmap_mode
  /\ k1.address_mode = k2.address_mode
  /\ k1.border_color = k2.border_color

\* cache_.find(key): the entries whose key compares equal to key
CacheFind(cache, key) == { e \in cache : PropsEq(e.key, key) }

CacheHandles(cache) == { e.handle : e \in cache }

\* ------------------------------------------------------- Resource::Pool
\* A pool object is the record of its members, in declaration order:
\*   device_ (TRUE: a valid VkDevice), allocator_, memory_ (TRUE: a policy is
\*   set), buffer_.pool, image_.pool, image_.sampler (the cache), fence_.pool,
\*   fence_.waitlist, fence_.in_use;  life tells whether the object exists.
UnbornPool ==
  [ life |-> "unborn", device_ |-> FALSE, allocator_ |-> Null, memory_ |-> FALSE,
    buffer_ |-> [pool |-> <<>>],
    image_ |-> [pool |-> <<>>, sampler |-> NoCache],
    fence_ |-> [pool |-> <<>>, waitlist |-> <<>>, in_use |-> 0] ]

\* ret: the call that completed last, when a claim refers to its outcome:
\*   result "returned" or "raised", fail the native call that failed, val the
\*   handle concerned; for purge, log is the order of its steps, nwait the
\*   length of the wait-list at the call, waited whether every fence of that
\*   wait-list was signaled before the call ended, released the handles
\*   the call took off the release lists, slots the length of the fence
\*   array at the call; for Fence::wait, log is the native calls and the
\*   erase it made, nwait the number of entries of the fence on the wait-list
\*   and waited whether the fence is signaled, both as the call ends.
NoRet ==
  [ op |-> "none", p |-> "-", result |-> "returned", val |-> Null, fail |-> "none",
    log |-> <<>>, nwait |-> 0, waited |-> TRUE, released |-> {}, slots |-> 0,
    frame |-> TRUE, args |-> <<>>, prev |-> <<>> ]

\* pc: what the thread is in the middle of.  In purge, snap is the wait-list
\* at the call, sig the fences of it seen signaled since, log the steps done,
\* lists the handles on the release lists at the call, slots the length of
\* the fence array at the call.
IdlePc == [ op |-> "idle", p |-> "-", dtor |-> FALSE, f |-> Null,
            log |-> <<>>, snap |-> <<>>, sig |-> {}, lists |-> {}, slots |-> 0 ]

Idle == pc.op = "idle"

Live(p) == pool[p].life = "live"

\* device_ && allocator_
Active(p) == Live(p) /\ pool[p].device_ /\ pool[p].allocator_ # Null

\* Fences of a wait-list the device has not signaled.
Unsignaled(v, waitlist) == { f \in Range(waitlist) : f \notin v.signaled }

\* Resource::Pool::Pool(const GPU&, std::unique_ptr<Policy>): pool "a" is
\* given a policy, pool "b" none.
PoolCtor(p) ==
  /\ Idle
  /\ pool[p].life = "unborn"
  /\ vk.nallocator < MaxAllocators
  /\ LET a == vk.nallocator + 1 IN
       /\ vk' = [vk EXCEPT !.nallocator = a, !.allocators = @ \cup {a}]
       /\ pool' = [pool EXCEPT ![p] =
            [UnbornPool EXCEPT !.life = "live", !.device_ = TRUE,
                               !.allocator_ = a, !.memory_ = (p = "a")]]
  /\ ret' = NoRet
  /\ UNCHANGED <<pc, held, hist>>
  /\ UNCHANGED <<cacheVars, objVars, mapVars, policyVars, fenceVars>>

\* Resource::Pool::invalidate
invalidate(P) == [P EXCEPT !.device_ = FALSE, !.allocator_ = Null]

\* What a moved-from pool keeps: empty vectors, no policy, no allocator; the
\* device handle and the in-use counter are plain values and are copied.
MovedFrom(P) ==
  [P EXCEPT !.allocator_ = Null, !.memory_ = FALSE,
            !.buffer_ = [pool |-> <<>>],
            !.image_ = [pool |-> <<>>, sampler |-> NoCache],
            !.fence_ = [pool |-> <<>>, waitlist |-> <<>>, in_use |-> P.fence_.in_use]]

\* History of the pooled release functions: the handles they ran on, those
\* they ran on more than once, and those they ran on while the wait-list of
\* the pool holding them still contained a fence the device had not signaled.
\* watch names the calls whose outcome ret records; it never changes.
\* images: per pool object and sampler key, the sampler handles create_image
\* has returned since the object was constructed; cached: the same since the
\* sampler cache the pool holds now was created (it follows the cache when
\* the pool is moved).  Both are kept only when watch has "sampler".
NoSamplers == [k \in Props |-> {}]

HistInit(watch) ==
  [ released |-> {}, twice |-> {}, unsafe |-> {}, watch |-> watch,
    images |-> [p \in Pools |-> NoSamplers], cached |-> [p \in Pools |-> NoSamplers] ]

HistSampler(h, p, key, handle) ==
  IF "sampler" \in h.watch
    THEN [h EXCEPT !.images[p][key] = @ \cup {handle},
                   !.cached[p][key] = @ \cup {handle}]
    ELSE h

HistMove(h, dst, src) ==
  [h EXCEPT !.cached[dst] = h.cached[src], !.cached[src] = NoSamplers,
            !.images[src] = NoSamplers]

HistDtor(h, p) == [h EXCEPT !.cached[p] = NoSamplers, !.images[p] = NoSamplers]

\* The record ret takes when the call op completes with outcome r.
Outcome(op, r) == IF op \in hist.watch THEN r ELSE NoRet

Repeated(list) ==
  { list[i].handle : i \in { k \in 1..Len(list) :
        \E j \in 1..Len(list) : j # k /\ list[j].handle = list[k].handle } }

HistRelease(h, list, v, waitlist) ==
  [h EXCEPT
     !.released = @ \cup Handles(list),
     !.twice = @ \cup (Handles(list) \cap h.released) \cup Repeated(list),
     !.unsafe = @ \cup (IF Unsignaled(v, waitlist) # {} THEN Handles(list) ELSE {})]

\* A move constructor that leaves the release lists in the source as well.
PoolMoveCtorKeepsLists(dst, src) ==
  /\ Idle
  /\ pool[dst].life = "unborn"
  /\ Live(src)
  /\ pool' = [pool EXCEPT ![dst] = pool[src],
                          ![src] = invalidate([MovedFrom(pool[src]) EXCEPT
                                                 !.buffer_ = pool[src].buffer_])]
  /\ hist' = HistMove(hist, dst, src)
  /\ ret' = NoRet
  /\ UNCHANGED <<vk, pc, held>>
  /\ UNCHANGED <<cacheVars, objVars, mapVars, policyVars, fenceVars>>

\* Resource::Pool::Pool(Pool&&)
PoolMoveCtor(dst, src) ==
  /\ Idle
  /\ pool[dst].life = "unborn"
  /\ Live(src)
  /\ pool' = [pool EXCEPT ![dst] = pool[src],
                          ![src] = invalidate(MovedFrom(pool[src]))]
  /\ hist' = HistMove(hist, dst, src)
  /\ ret' = NoRet
  /\ UNCHANGED <<vk, pc, held>>
  /\ UNCHANGED <<cacheVars, objVars, mapVars, policyVars, fenceVars>>

\* Resource::Pool::operator=(Pool&&): the members are move-assigned in
\* declaration order, each assignment destroying what the destination held.
PoolMoveAssign(dst, src) ==
  /\ Idle
  /\ Live(dst) /\ Live(src)
  /\ IF dst = src
       THEN UNCHANGED <<vk, pool, hist>>
       ELSE LET D == pool[dst]
                S == pool[src]
                \* allocator_ = std::move(pool.allocator_)
                v1 == IF D.allocator_ # Null
                        THEN vmaDestroyAllocator(vk, D.allocator_) ELSE vk
                \* buffer_ = std::move(pool.buffer_)
                v2 == ReleaseList(v1, D.buffer_.pool)
                \* image_ = std::move(pool.image_)
                v3 == vkDestroySamplers(ReleaseList(v2, D.image_.pool),
                                        CacheHandles(D.image_.sampler))
                \* fence_ = std::move(pool.fence_)
                v4 == vkDestroyFences(v3, Range(D.fence_.pool))
            IN /\ vk' = v4
               /\ hist' = HistMove(
                            HistRelease(HistRelease(hist, D.buffer_.pool, v1, D.fence_.waitlist),
                                        D.image_.pool, v2, D.fence_.waitlist),
                            dst, src)
               /\ pool' = [pool EXCEPT ![dst] = S,
                                       ![src] = invalidate(MovedFrom(S))]
  /\ ret' = NoRet
  /\ UNCHANGED <<pc, held>>
  /\ UNCHANGED <<cacheVars, objVars, mapVars, policyVars, fenceVars>>

\* Entering Resource::Pool::purge: the wait is skipped on an empty wait-list.
PurgeEntry(p, dtor) ==
  [ IdlePc EXCEPT
      !.op = IF pool[p].fence_.waitlist = <<>> THEN "purge_release" ELSE "purge_wait",
      !.p = p, !.dtor = dtor,
      !.snap = pool[p].fence_.waitlist,
      !.sig = Range(pool[p].fence_.waitlist) \cap vk.signaled,
      !.lists = Handles(pool[p].image_.pool) \cup Handles(pool[p].buffer_.pool),
      !.slots = Len(pool[p].fence_.pool) ]

\* Resource::Pool::purge, called by the user
PurgeCall(p) ==
  /\ Idle
  /\ Active(p)
  /\ pc' = PurgeEntry(p, FALSE)
  /\ UNCHANGED <<vk, pool, held, ret, hist>>
  /\ UNCHANGED <<cacheVars, objVars, mapVars, policyVars, fenceVars>>

\* Resource::Pool::~Pool: the body purges an Active pool inside try/catch.
DtorCall(p) ==
  /\ Idle
  /\ Live(p)
  /\ pc' = IF Active(p) THEN PurgeEntry(p, TRUE)
           ELSE [IdlePc EXCEPT !.op = "dtor_members", !.p = p]
  /\ UNCHANGED <<vk, pool, held, ret, hist>>
  /\ UNCHANGED <<cacheVars, objVars, mapVars, policyVars, fenceVars>>

\* The outcome of a purge that ends leaving the pool as P.
PurgeRet(result, log, P) ==
  Outcome("purge",
          [NoRet EXCEPT !.op = "purge", !.p = pc.p, !.result = result,
                        !.log = log, !.nwait = Len(pc.snap),
                        !.waited = (Range(pc.snap) \subseteq pc.sig),
                        !.released = pc.lists \ (Handles(P.image_.pool) \cup Handles(P.buffer_.pool)),
                        !.slots = pc.slots])

\* Where the thread goes when purge ends: back to the caller, or, in the
\* destructor, on to the destruction of the members (an exception is caught).
AfterPurge ==
  IF pc.dtor THEN [IdlePc EXCEPT !.op = "dtor_members", !.p = pc.p] ELSE IdlePc

\* Mutant of PurgeWait: the wait returns without the fences being signaled.
PurgeWaitNoBlock ==
  /\ pc.op = "purge_wait"
  /\ pc' = [pc EXCEPT !.op = "purge_reset", !.log = Append(@, "wait")]
  /\ UNCHANGED <<vk, pool, held, ret, hist>>
  /\ UNCHANGED <<cacheVars, objVars, mapVars, policyVars, fenceVars>>

\* vkWaitForFences(waitlist, VK_TRUE, UINT64_MAX) returns VK_SUCCESS: every
\* fence of the wait-list is signaled.
PurgeWait ==
  /\ pc.op = "purge_wait"
  /\ Unsignaled(vk, pool[pc.p].fence_.waitlist) = {}
  /\ pc' = [pc EXCEPT !.op = "purge_reset", !.log = Append(@, "wait")]
  /\ UNCHANGED <<vk, pool, held, ret, hist>>
  /\ UNCHANGED <<cacheVars, objVars, mapVars, policyVars, fenceVars>>

\* vkWaitForFences returns an error (the device is lost): VK_CHECK throws.
PurgeWaitRaise ==
  /\ pc.op = "purge_wait"
  /\ ret' = PurgeRet("raised", pc.log, pool[pc.p])
  /\ pc' = AfterPurge
  /\ UNCHANGED <<vk, pool, held, hist>>
  /\ UNCHANGED <<cacheVars, objVars, mapVars, policyVars, fenceVars>>

\* vkResetFences(waitlist): ok, or an error and VK_CHECK throws.
PurgeReset(ok) ==
  /\ pc.op = "purge_reset"
  /\ IF ok
       THEN /\ vk' = vkResetFences(vk, Range(pool[pc.p].fence_.waitlist))
            /\ pc' = [pc EXCEPT !.op = "purge_clear_waitlist", !.log = Append(@, "reset")]
            /\ UNCHANGED ret
       ELSE /\ ret' = PurgeRet("raised", pc.log, pool[pc.p])
            /\ pc' = AfterPurge
            /\ UNCHANGED vk
  /\ UNCHANGED <<pool, held, hist>>
  /\ UNCHANGED <<cacheVars, objVars, mapVars, policyVars, fenceVars>>

\* fence_.waitlist.clear()
PurgeClearWaitlist ==
  /\ pc.op = "purge_clear_waitlist"
  /\ pool' = [pool EXCEPT ![pc.p].fence_.waitlist = <<>>]
  /\ pc' = [pc EXCEPT !.op = "purge_release", !.log = Append(@, "clear_waitlist")]
  /\ UNCHANGED <<vk, held, ret, hist>>
  /\ UNCHANGED <<cacheVars, objVars, mapVars, policyVars, fenceVars>>

\* Mutant of PurgeRelease: the in-use counter is not reset.
PurgeReleaseKeepsInUse ==
  /\ pc.op = "purge_release"
  /\ LET P == pool[pc.p]
         v1 == ReleaseList(vk, P.image_.pool)
         v2 == ReleaseList(v1, P.buffer_.pool)
     IN /\ vk' = v2
        /\ hist' = HistRelease(HistRelease(hist, P.image_.pool, vk, P.fence_.waitlist),
                               P.buffer_.pool, v1, P.fence_.waitlist)
        /\ pool' = [pool EXCEPT ![pc.p].image_.pool = <<>>,
                                ![pc.p].buffer_.pool = <<>>]
        /\ ret' = PurgeRet("returned", Append(pc.log, "release"), pool'[pc.p])
  /\ pc' = AfterPurge
  /\ UNCHANGED held
  /\ UNCHANGED <<cacheVars, objVars, mapVars, policyVars, fenceVars>>

\* A purge that also purges the pool's sampler cache.
PurgeReleaseDropsSamplers ==
  /\ pc.op = "purge_release"
  /\ LET P == pool[pc.p]
         v1 == ReleaseList(vk, P.image_.pool)
         v2 == ReleaseList(v1, P.buffer_.pool)
     IN /\ vk' = vkDestroySamplers(v2, CacheHandles(P.image_.sampler))
        /\ hist' = HistRelease(HistRelease(hist, P.image_.pool, vk, P.fence_.waitlist),
                               P.buffer_.pool, v1, P.fence_.waitlist)
        /\ pool' = [pool EXCEPT ![pc.p].fence_.in_use = 0,
                                ![pc.p].image_.pool = <<>>,
                                ![pc.p].image_.sampler = NoCache,
                                ![pc.p].buffer_.pool = <<>>]
        /\ ret' = PurgeRet("returned", Append(pc.log, "release"), pool'[pc.p])
  /\ pc' = AfterPurge
  /\ UNCHANGED held
  /\ UNCHANGED <<cacheVars, objVars, mapVars, policyVars, fenceVars>>

\* fence_.in_use = 0; image_.pool.clear(); buffer_.pool.clear()
PurgeRelease ==
  /\ pc.op = "purge_release"
  /\ LET P == pool[pc.p]
         v1 == ReleaseList(vk, P.image_.pool)
         v2 == ReleaseList(v1, P.buffer_.pool)
     IN /\ vk' = v2
        /\ hist' = HistRelease(HistRelease(hist, P.image_.pool, vk, P.fence_.waitlist),
                               P.buffer_.pool, v1, P.fence_.waitlist)
        /\ pool' = [pool EXCEPT ![pc.p].fence_.in_use = 0,
                                ![pc.p].image_.pool = <<>>,
                                ![pc.p].buffer_.pool = <<>>]
        /\ ret' = PurgeRet("returned", Append(pc.log, "release"), pool'[pc.p])
  /\ pc' = AfterPurge
  /\ UNCHANGED held
  /\ UNCHANGED <<cacheVars, objVars, mapVars, policyVars, fenceVars>>

\* The members of a pool are destroyed in reverse declaration order:
\* fence_, image_ (the sampler cache, then the release list), buffer_,
\* memory_, allocator_.
DestroyMembers(v, P) ==
  LET v1 == vkDestroyFences(v, Range(P.fence_.pool))
      v2 == vkDestroySamplers(v1, CacheHandles(P.image_.sampler))
      v3 == ReleaseList(v2, P.image_.pool)
      v4 == ReleaseList(v3, P.buffer_.pool)
  IN IF P.allocator_ # Null THEN vmaDestroyAllocator(v4, P.allocator_) ELSE v4

\* The end of Resource::Pool::~Pool
DtorMembers ==
  /\ pc.op = "dtor_members"
  /\ vk' = DestroyMembers(vk, pool[pc.p])
  /\ hist' = HistDtor(HistRelease(HistRelease(hist, pool[pc.p].image_.pool, vk, <<>>),
                                  pool[pc.p].buffer_.pool, vk, <<>>),
                      pc.p)
  /\ pool' = [pool EXCEPT ![pc.p] = [UnbornPool EXCEPT !.life = "destroyed"]]
  /\ ret' = NoRet
  /\ pc' = IdlePc
  /\ UNCHANGED held
  /\ UNCHANGED <<cacheVars, objVars, mapVars, policyVars, fenceVars>>

BufferValue(n, a) ==
  [ kind |-> "buffer", handle |-> n, view |-> Null, sampler |-> Null,
    allocation |-> n, allocator |-> a ]

ImageValue(n, a, sampler) ==
  [ kind |-> "image", handle |-> n, view |-> n, sampler |-> sampler,
    allocation |-> n, allocator |-> a ]

\* The outcome of a creating call: val is the native object the call makes
\* (when it gets that far), frame tells that no pool changed during the call.
CreateRet(op, p, fail, val, frame) ==
  Outcome("create",
          [NoRet EXCEPT !.op = op, !.p = p, !.fail = fail, !.val = val,
                        !.frame = frame,
                        !.result = IF fail = "none" THEN "returned" ELSE "raised"])

\* A create_buffer that registers the buffer it returns for cleanup.
CreateBufferRegisters(p, fail) ==
  /\ Idle
  /\ Active(p)
  /\ vk.nobj < MaxObjects
  /\ fail = "none"
  /\ LET n == vk.nobj + 1
         a == pool[p].allocator_
     IN /\ vk' = vmaAllocateMemory(vkCreateObject(vk, n), a, n)
        /\ held' = held \cup {BufferValue(n, a)}
        /\ pool' = [pool EXCEPT ![p].buffer_.pool = Append(@, BufferValue(n, a))]
        /\ ret' = CreateRet("create_buffer", p, fail, n, pool' = pool)
  /\ UNCHANGED <<pc, hist>>
  /\ UNCHANGED <<cacheVars, objVars, mapVars, policyVars, fenceVars>>

\* Resource::Pool::create_buffer.  fail names the native call that reports
\* failure (VK_CHECK / TORCH_CHECK then throws), "none" when all succeed.
create_buffer(p, fail) ==
  /\ Idle
  /\ Active(p)
  /\ vk.nobj < MaxObjects
  /\ fail \in {"none", "vkCreateBuffer", "enact", "vmaAllocateMemory", "vmaBindBufferMemory"}
  /\ fail = "enact" => pool[p].memory_
  /\ LET n == vk.nobj + 1
         a == pool[p].allocator_
         v1 == vkCreateObject(vk, n)
         v2 == vmaAllocateMemory(v1, a, n)
     IN /\ vk' = CASE fail = "vkCreateBuffer" -> vk
                   [] fail \in {"enact", "vmaAllocateMemory"} -> v1
                   [] OTHER -> v2
        /\ held' = IF fail = "none" THEN held \cup {BufferValue(n, a)} ELSE held
        /\ pool' = pool
        /\ ret' = CreateRet("create_buffer", p, fail, n, pool' = pool)
  /\ UNCHANGED <<pc, hist>>
  /\ UNCHANGED <<cacheVars, objVars, mapVars, policyVars, fenceVars>>

\* The caller registers a resource once, while it is alive: a value that is
\* already on a release list, or was released, is not registered again.
Registrable(r) ==
  /\ r.handle \in vk.objects
  /\ \A q \in Pools : r \notin Range(pool[q].buffer_.pool) \cup Range(pool[q].image_.pool)

\* Resource::Pool::register_buffer_cleanup
register_buffer_cleanup(p, buffer) ==
  /\ Idle
  /\ Live(p)
  /\ buffer \in held /\ buffer.kind = "buffer"
  /\ Registrable(buffer)
  /\ pool' = [pool EXCEPT ![p].buffer_.pool = Append(@, buffer)]
  /\ ret' = NoRet
  /\ UNCHANGED <<vk, pc, held, hist>>
  /\ UNCHANGED <<cacheVars, objVars, mapVars, policyVars, fenceVars>>

\* image_.sampler.cache.retrieve(descriptor.sampler): the handle of the entry
\* found, or of the sampler created and inserted on a miss.
PoolCacheHandle(cache, key, v) ==
  IF CacheFind(cache, key) # {}
    THEN (CHOOSE e \in CacheFind(cache, key) : TRUE).handle
    ELSE v.nsampler + 1

PoolCacheInsert(cache, key, v) ==
  IF CacheFind(cache, key) # {} THEN cache
  ELSE cache \cup {[key |-> key, handle |-> v.nsampler + 1]}

PoolCacheCreate(cache, key, v) ==
  IF CacheFind(cache, key) # {} THEN v
  ELSE [v EXCEPT !.nsampler = @ + 1, !.samplers = @ \cup {v.nsampler + 1}]

\* The sampler an image returned by create_image refers to.
ImageSamplerOf(cache, key, v) == PoolCacheHandle(cache, key, v)

\* A create_image whose sampler is constructed anew at every call, without
\* the lookup in the pool's sampler cache.
CreateImageNoLookup(p, key, fail) ==
  /\ Idle
  /\ Active(p)
  /\ vk.nobj < MaxObjects
  /\ fail = "none"
  /\ vk.nsampler < MaxSamplers
  /\ LET n == vk.nobj + 1
         a == pool[p].allocator_
         h == vk.nsampler + 1
         v3 == vkCreateImageView(vmaAllocateMemory(vkCreateObject(vk, n), a, n), n)
     IN /\ vk' = [v3 EXCEPT !.nsampler = h, !.samplers = @ \cup {h}]
        /\ pool' = [pool EXCEPT ![p].image_.sampler = @ \cup {[key |-> key, handle |-> h]}]
        /\ held' = held \cup {ImageValue(n, a, h)}
        /\ hist' = HistSampler(hist, p, key, h)
        /\ ret' = CreateRet("create_image", p, fail, n, pool' = pool)
  /\ UNCHANGED pc
  /\ UNCHANGED <<cacheVars, objVars, mapVars, policyVars, fenceVars>>

\* Resource::Pool::create_image
create_image(p, key, fail) ==
  /\ Idle
  /\ Active(p)
  /\ vk.nobj < MaxObjects
  /\ fail \in {"none", "vkCreateImage", "enact", "vmaAllocateMemory",
               "vmaBindImageMemory", "vkCreateImageView", "vkCreateSampler"}
  /\ fail = "enact" => pool[p].memory_
  /\ LET n == vk.nobj + 1
         a == pool[p].allocator_
         cache == pool[p].image_.sampler
         miss == CacheFind(cache, key) = {}
         v1 == vkCreateObject(vk, n)
         v2 == vmaAllocateMemory(v1, a, n)
         v3 == vkCreateImageView(v2, n)
         v4 == PoolCacheCreate(cache, key, v3)
     IN /\ fail = "vkCreateSampler" => miss
        /\ (fail = "none" /\ miss) => vk.nsampler < MaxSamplers
        /\ vk' = CASE fail = "vkCreateImage" -> vk
                   [] fail \in {"enact", "vmaAllocateMemory"} -> v1
                   [] fail \in {"vmaBindImageMemory", "vkCreateImageView"} -> v2
                   [] fail = "vkCreateSampler" -> v3
                   [] OTHER -> v4
        /\ pool' = IF fail = "none"
                     THEN [pool EXCEPT ![p].image_.sampler = PoolCacheInsert(cache, key, vk)]
                     ELSE pool
        /\ held' = IF fail = "none"
                     THEN held \cup {ImageValue(n, a, ImageSamplerOf(cache, key, vk))}
                     ELSE held
        /\ hist' = IF fail = "none"
                     THEN HistSampler(hist, p, key, ImageSamplerOf(cache, key, vk))
                     ELSE hist
        /\ ret' = CreateRet("create_image", p, fail, n, pool' = pool)
  /\ UNCHANGED pc
  /\ UNCHANGED <<cacheVars, objVars, mapVars, policyVars, fenceVars>>

\* Resource::Pool::register_image_cleanup
register_image_cleanup(p, image) ==
  /\ Idle
  /\ Live(p)
  /\ image \in held /\ image.kind = "image"
  /\ Registrable(image)
  /\ pool' = [pool EXCEPT ![p].image_.pool = Append(@, image)]
  /\ ret' = NoRet
  /\ UNCHANGED <<vk, pc, held, hist>>
  /\ UNCHANGED <<cacheVars, objVars, mapVars, policyVars, fenceVars>>

\* A fence() that creates a native fence at every call.
FenceAlwaysCreates(p) ==
  /\ Idle
  /\ Active(p)
  /\ vk.nfence < MaxFences
  /\ LET F == pool[p].fence_
         f == vk.nfence + 1
     IN /\ vk' = [vk EXCEPT !.nfence = f, !.fences = @ \cup {f}]
        /\ pool' = [pool EXCEPT ![p].fence_.pool = Append(@, f),
                                ![p].fence_.in_use = @ + 1]
        /\ ret' = Outcome("fence", [NoRet EXCEPT !.op = "fence", !.p = p, !.val = F.in_use,
                                    !.prev = <<F.in_use, Len(F.pool), vk.nfence>>])
  /\ UNCHANGED <<pc, held, hist>>
  /\ UNCHANGED <<cacheVars, objVars, mapVars, policyVars, fenceVars>>

\* A fence() that hands out the slot at the counter and leaves the counter.
FenceKeepsCounter(p) ==
  /\ Idle
  /\ Active(p)
  /\ LET F == pool[p].fence_
         grow == Len(F.pool) = F.in_use
         f == vk.nfence + 1
     IN /\ grow => vk.nfence < MaxFences
        /\ ~grow => F.in_use < Len(F.pool)
        /\ vk' = IF grow THEN [vk EXCEPT !.nfence = f, !.fences = @ \cup {f}] ELSE vk
        /\ pool' = [pool EXCEPT
                      ![p].fence_.pool = IF grow THEN Append(@, f) ELSE @]
        /\ ret' = Outcome("fence", [NoRet EXCEPT !.op = "fence", !.p = p, !.val = F.in_use,
                                    !.prev = <<F.in_use, Len(F.pool), vk.nfence>>])
  /\ UNCHANGED <<pc, held, hist>>
  /\ UNCHANGED <<cacheVars, objVars, mapVars, policyVars, fenceVars>>

\* Resource::Pool::fence
fence(p) ==
  /\ Idle
  /\ Active(p)
  /\ LET F == pool[p].fence_
         grow == Len(F.pool) = F.in_use
         f == vk.nfence + 1
     IN /\ grow => vk.nfence < MaxFences
        /\ ~grow => F.in_use < Len(F.pool)
        /\ vk' = IF grow THEN [vk EXCEPT !.nfence = f, !.fences = @ \cup {f}] ELSE vk
        /\ pool' = [pool EXCEPT
                      ![p].fence_.pool = IF grow THEN Append(@, f) ELSE @,
                      ![p].fence_.in_use = @ + 1]
        /\ ret' = Outcome("fence", [NoRet EXCEPT !.op = "fence", !.p = p, !.val = F.in_use,
                                    !.prev = <<F.in_use, Len(F.pool), vk.nfence>>])
  /\ UNCHANGED <<pc, held, hist>>
  /\ UNCHANGED <<cacheVars, objVars, mapVars, policyVars, fenceVars>>

\* A handle(true) that also takes a slot of the fence array.
FenceHandleTakesSlot(p, id) ==
  /\ Idle
  /\ Live(p)
  /\ id \in 0..(Len(pool[p].fence_.pool) - 1)
  /\ Len(pool[p].fence_.waitlist) < MaxWaitlist
  /\ LET f == pool[p].fence_.pool[id + 1]
     IN /\ pool' = [pool EXCEPT ![p].fence_.waitlist = Append(@, f),
                                ![p].fence_.in_use = @ + 1]
        /\ vk' = [vk EXCEPT !.pending = @ \cup {f}]
        /\ ret' = NoRet
  /\ UNCHANGED <<pc, held, hist>>
  /\ UNCHANGED <<cacheVars, objVars, mapVars, policyVars, fenceVars>>

\* Resource::Fence::handle(add_to_waitlist = true) on the handle {p, id}; the
\* fence returned is submitted with work the device will complete.
FenceHandle(p, id) ==
  /\ Idle
  /\ Live(p)
  /\ id \in 0..(Len(pool[p].fence_.pool) - 1)
  /\ Len(pool[p].fence_.waitlist) < MaxWaitlist
  /\ LET f == pool[p].fence_.pool[id + 1]
     IN /\ pool' = [pool EXCEPT ![p].fence_.waitlist = Append(@, f)]
        /\ vk' = [vk EXCEPT !.pending = @ \cup {f}]
        /\ ret' = NoRet
  /\ UNCHANGED <<pc, held, hist>>
  /\ UNCHANGED <<cacheVars, objVars, mapVars, policyVars, fenceVars>>

\* The device completes the work a fence was submitted with.
DeviceSignal(f) ==
  /\ f \in vk.pending
  /\ vk' = [vk EXCEPT !.pending = @ \ {f}, !.signaled = @ \cup {f}]
  /\ pc' = IF f \in Range(pc.snap) THEN [pc EXCEPT !.sig = @ \cup {f}] ELSE pc
  /\ UNCHANGED <<pool, held, ret, hist>>
  /\ UNCHANGED <<cacheVars, objVars, mapVars, policyVars, fenceVars>>

\* A wait that blocks on the fence without looking it up in the wait-list.
FenceWaitCallNoFind(p, id) ==
  /\ Idle
  /\ Live(p)
  /\ id \in 0..(Len(pool[p].fence_.pool) - 1)
  /\ pc' = [IdlePc EXCEPT !.op = "wait_block", !.p = p, !.f = pool[p].fence_.pool[id + 1],
                          !.log = <<"vkWaitForFences">>]
  /\ UNCHANGED <<vk, pool, held, ret, hist>>
  /\ UNCHANGED <<cacheVars, objVars, mapVars, policyVars, fenceVars>>

\* Resource::Fence::wait on the handle {p, id}: returns at once when the fence
\* is not on the wait-list, blocks in vkWaitForFences otherwise.
FenceWaitCall(p, id) ==
  /\ Idle
  /\ Live(p)
  /\ id \in 0..(Len(pool[p].fence_.pool) - 1)
  /\ LET f == pool[p].fence_.pool[id + 1]
     IN /\ vk' = vk
        /\ pool' = pool
        /\ IF FindFirst(pool[p].fence_.waitlist, f) = 0
             THEN /\ ret' = Outcome("wait", [NoRet EXCEPT !.op = "wait", !.p = p, !.val = f,
                                          !.fail = "not_on_waitlist",
                                          !.nwait = Count(pool'[p].fence_.waitlist, f),
                                          !.waited = (f \in vk'.signaled),
                                          !.frame = (vk' = vk /\ pool' = pool)])
                  /\ UNCHANGED pc
             ELSE /\ pc' = [IdlePc EXCEPT !.op = "wait_block", !.p = p, !.f = f,
                                          !.log = <<"vkWaitForFences">>]
                  /\ UNCHANGED ret
  /\ UNCHANGED <<held, hist>>
  /\ UNCHANGED <<cacheVars, objVars, mapVars, policyVars, fenceVars>>

\* vkWaitForFences returns VK_SUCCESS; then vkResetFences (ok, or an error
\* and VK_CHECK throws) and waitlist.erase(waitlist_itr).
FenceWaitReturn(ok) ==
  /\ pc.op = "wait_block"
  /\ pc.f \in vk.signaled
  /\ LET wl == pool[pc.p].fence_.waitlist
     IN IF ok
          THEN /\ vk' = vkResetFences(vk, {pc.f})
               /\ pool' = [pool EXCEPT ![pc.p].fence_.waitlist = EraseAt(wl, FindFirst(wl, pc.f))]
               /\ ret' = Outcome("wait", [NoRet EXCEPT !.op = "wait", !.p = pc.p, !.val = pc.f,
                                       !.nwait = Count(pool'[pc.p].fence_.waitlist, pc.f),
                                       !.waited = (pc.f \in vk'.signaled),
                                       !.log = pc.log \o <<"vkResetFences", "erase">>])
          ELSE /\ UNCHANGED <<vk, pool>>
               /\ ret' = Outcome("wait", [NoRet EXCEPT !.op = "wait", !.p = pc.p, !.val = pc.f,
                                       !.log = pc.log \o <<"vkResetFences">>,
                                       !.nwait = Count(pool'[pc.p].fence_.waitlist, pc.f),
                                       !.waited = (pc.f \in vk'.signaled),
                                       !.result = "raised", !.fail = "vkResetFences"])
  /\ pc' = IdlePc
  /\ UNCHANGED <<held, hist>>
  /\ UNCHANGED <<cacheVars, objVars, mapVars, policyVars, fenceVars>>

\* A wait that treats an elapsed timeout as the signal: it resets the fence,
\* erases it from the wait-list and returns.
FenceWaitTimeoutErases(result) ==
  /\ pc.op = "wait_block"
  /\ result = "VK_TIMEOUT"
  /\ pc.f \notin vk.signaled
  /\ LET wl == pool[pc.p].fence_.waitlist
     IN  /\ vk' = vkResetFences(vk, {pc.f})
         /\ pool' = [pool EXCEPT ![pc.p].fence_.waitlist = EraseAt(wl, FindFirst(wl, pc.f))]
  /\ ret' = Outcome("wait", [NoRet EXCEPT !.op = "wait", !.p = pc.p, !.val = pc.f,
                          !.log = pc.log \o <<"vkResetFences", "erase">>,
                          !.nwait = Count(pool'[pc.p].fence_.waitlist, pc.f),
                          !.waited = (pc.f \in vk'.signaled),
                          !.frame = FALSE, !.fail = result])
  /\ pc' = IdlePc
  /\ UNCHANGED <<held, hist>>
  /\ UNCHANGED <<cacheVars, objVars, mapVars, policyVars, fenceVars>>

\* vkWaitForFences returns VK_TIMEOUT (the fence is not signaled when the
\* timeout elapses) or an error: VK_CHECK throws.
FenceWaitRaise(result) ==
  /\ pc.op = "wait_block"
  /\ result \in {"VK_TIMEOUT", "VK_ERROR_DEVICE_LOST"}
  /\ result = "VK_TIMEOUT" => pc.f \notin vk.signaled
  /\ vk' = vk
  /\ pool' = pool
  /\ ret' = Outcome("wait", [NoRet EXCEPT !.op = "wait", !.p = pc.p, !.val = pc.f,
                          !.log = pc.log, !.frame = (vk' = vk /\ pool' = pool),
                          !.nwait = Count(pool'[pc.p].fence_.waitlist, pc.f),
                          !.waited = (pc.f \in vk'.signaled),
                          !.result = "raised", !.fail = result])
  /\ pc' = IdlePc
  /\ UNCHANGED <<held, hist>>
  /\ UNCHANGED <<cacheVars, objVars, mapVars, policyVars, fenceVars>>

\* ---------------------------------------------------------- SamplerCache
\* A SamplerCache object is the record of its members: cache_mutex_ (Null, or
\* the thread that holds it), device_, cache_ (a set of entries
\* [key, handle]); life tells whether the object exists ("constructing":
\* its move constructor is running).
UnbornCache ==
  [ life |-> "unborn", cache_mutex_ |-> Null, device_ |-> FALSE, cache_ |-> NoCache ]

\* A thread: pc is its position, c the cache it is in, key the argument of
\* retrieve, it the iterator of retrieve (an entry, or Null for cend()), h the
\* handle it read.  clean: no purge or move of c since the call; live: the
\* entry it referred to was in the cache when the handle was read.
IdleThread ==
  [ pc |-> "idle", c |-> "c", dst |-> "c", key |-> Null, it |-> Null, h |-> Null,
    clean |-> TRUE, live |-> TRUE ]

\* Per cache, since its last purge or move: how many samplers were
\* constructed for each key, which handles retrieve returned for it, and to
\* how many calls (counted up to MaxThreads).
NoneSeen ==
  [ built |-> [k \in Props |-> 0], handles |-> [k \in Props |-> {}],
    calls |-> [k \in Props |-> 0] ]

Inside(t, c) == thr[t].pc # "idle" /\ thr[t].c = c

\* The threads inside a call on cache c lose `clean` when c is emptied.
Disturb(c) ==
  [t \in Threads |-> IF Inside(t, c) THEN [thr[t] EXCEPT !.clean = FALSE] ELSE thr[t]]

\* SamplerCache::SamplerCache(device)
CacheCtor(t, c) ==
  /\ thr[t].pc = "idle"
  /\ sc[c].life = "unborn"
  /\ sc' = [sc EXCEPT ![c] = [UnbornCache EXCEPT !.life = "live", !.device_ = TRUE]]
  /\ seen' = [seen EXCEPT ![c] = NoneSeen]
  /\ UNCHANGED <<vk, thr, held, ret, poolVars, objVars, mapVars, policyVars, fenceVars>>

\* SamplerCache::retrieve is called
RetrieveCall(t, c, key) ==
  /\ thr[t].pc = "idle"
  /\ sc[c].life = "live"
  /\ thr' = [thr EXCEPT ![t] = [IdleThread EXCEPT !.pc = "lock", !.c = c, !.key = key]]
  /\ UNCHANGED <<vk, sc, seen, held, ret, poolVars, objVars, mapVars, policyVars, fenceVars>>

\* A lock acquisition that does not exclude another holder.
RetrieveLockNoExclusion(t) ==
  /\ thr[t].pc = "lock"
  /\ sc' = [sc EXCEPT ![thr[t].c].cache_mutex_ = t]
  /\ thr' = [thr EXCEPT ![t].pc = "find"]
  /\ UNCHANGED <<vk, seen, held, ret, poolVars, objVars, mapVars, policyVars, fenceVars>>

\* std::lock_guard<std::mutex> lock(cache_mutex_)
RetrieveLock(t) ==
  /\ thr[t].pc = "lock"
  /\ sc[thr[t].c].cache_mutex_ = Null
  /\ sc' = [sc EXCEPT ![thr[t].c].cache_mutex_ = t]
  /\ thr' = [thr EXCEPT ![t].pc = "find"]
  /\ UNCHANGED <<vk, seen, held, ret, poolVars, objVars, mapVars, policyVars, fenceVars>>

\* auto it = cache_.find(key)
RetrieveFind(t) ==
  /\ thr[t].pc = "find"
  /\ LET found == CacheFind(sc[thr[t].c].cache_, thr[t].key)
     IN  thr' = [thr EXCEPT ![t].it = IF found = {} THEN Null
                                       ELSE CHOOSE e \in found : TRUE,
                            ![t].pc = IF found = {} THEN "insert" ELSE "read"]
  /\ UNCHANGED <<vk, sc, seen, held, ret, poolVars, objVars, mapVars, policyVars, fenceVars>>

\* it = cache_.insert({key, Value(device_, key)}).first: the sampler is
\* constructed (vkCreateSampler), then inserted; when an entry with the key is
\* already there, insert refuses, the sampler just constructed is destroyed
\* with the temporary, and `it` is the entry that was there.  A failing
\* vkCreateSampler throws: the lock is released and retrieve raises.
RetrieveInsert(t, ok) ==
  /\ thr[t].pc = "insert"
  /\ LET c == thr[t].c
         key == thr[t].key
         n == vk.nsampler + 1
         found == CacheFind(sc[c].cache_, key)
         entry == [key |-> key, handle |-> n]
     IN  IF ok
           THEN /\ vk.nsampler < MaxSamplers
                /\ vk' = [vk EXCEPT !.nsampler = n,
                                    !.samplers = IF found = {} THEN @ \cup {n} ELSE @]
                /\ sc' = [sc EXCEPT ![c].cache_ = IF found = {} THEN @ \cup {entry} ELSE @]
                /\ thr' = [thr EXCEPT ![t].it = IF found = {} THEN entry
                                                ELSE CHOOSE e \in found : TRUE,
                                      ![t].pc = "read"]
                /\ seen' = [seen EXCEPT ![c].built[key] = @ + 1]
           ELSE /\ sc' = [sc EXCEPT ![c].cache_mutex_ = Null]
                /\ thr' = [thr EXCEPT ![t] = IdleThread]
                /\ UNCHANGED <<vk, seen>>
  /\ UNCHANGED <<held, ret, poolVars, objVars, mapVars, policyVars, fenceVars>>

\* it->second.handle(): the handle of the entry `it` refers to.  When the
\* entry is no longer in the cache the iterator dangles and the read is
\* undefined: any value may come back.
RetrieveRead(t, garbage) ==
  /\ thr[t].pc = "read"
  /\ garbage \in 0..MaxSamplers
  /\ LET isLive == thr[t].it \in sc[thr[t].c].cache_
     IN  thr' = [thr EXCEPT ![t].h = IF isLive THEN thr[t].it.handle ELSE garbage,
                            ![t].live = isLive,
                            ![t].pc = "unlock"]
  /\ UNCHANGED <<vk, sc, seen, held, ret, poolVars, objVars, mapVars, policyVars, fenceVars>>

\* return: the lock_guard releases cache_mutex_
RetrieveUnlock(t) ==
  /\ thr[t].pc = "unlock"
  /\ LET c == thr[t].c
         key == thr[t].key
     IN  /\ sc' = [sc EXCEPT ![c].cache_mutex_ = Null]
         /\ seen' = IF thr[t].clean
                      THEN [seen EXCEPT ![c].handles[key] = @ \cup {thr[t].h},
                                        ![c].calls[key] = IF @ < MaxThreads THEN @ + 1 ELSE @]
                      ELSE seen
  /\ thr' = [thr EXCEPT ![t] = IdleThread]
  /\ UNCHANGED <<vk, held, ret, poolVars, objVars, mapVars, policyVars, fenceVars>>

\* SamplerCache::purge: cache_.clear(), without taking cache_mutex_; every
\* ImageSampler of the cache is destroyed.
CachePurge(t, c) ==
  /\ thr[t].pc = "idle"
  /\ sc[c].life = "live"
  /\ vk' = vkDestroySamplers(vk, CacheHandles(sc[c].cache_))
  /\ sc' = [sc EXCEPT ![c].cache_ = NoCache]
  /\ thr' = Disturb(c)
  /\ seen' = [seen EXCEPT ![c] = NoneSeen]
  /\ UNCHANGED <<held, ret, poolVars, objVars, mapVars, policyVars, fenceVars>>

\* SamplerCache::SamplerCache(SamplerCache&& other): takes other.cache_mutex_
CacheMoveLock(t, dst, src) ==
  /\ thr[t].pc = "idle"
  /\ dst # src
  /\ sc[dst].life = "unborn"
  /\ sc[src].life = "live"
  /\ sc[src].cache_mutex_ = Null
  /\ sc' = [sc EXCEPT ![src].cache_mutex_ = t, ![dst].life = "constructing"]
  /\ thr' = [thr EXCEPT ![t] = [IdleThread EXCEPT !.pc = "move", !.c = src, !.dst = dst]]
  /\ UNCHANGED <<vk, seen, held, ret, poolVars, objVars, mapVars, policyVars, fenceVars>>

\* cache_ = std::move(other.cache_), then the lock_guard releases the mutex
CacheMove(t) ==
  /\ thr[t].pc = "move"
  /\ LET src == thr[t].c
         dst == thr[t].dst
     IN  /\ sc' = [sc EXCEPT ![dst] = [UnbornCache EXCEPT !.life = "live",
                                                          !.device_ = sc[src].device_,
                                                          !.cache_ = sc[src].cache_],
                             ![src].cache_ = NoCache,
                             ![src].cache_mutex_ = Null]
         /\ seen' = [seen EXCEPT ![dst] = [NoneSeen EXCEPT !.built = seen[src].built],
                                 ![src] = NoneSeen]
         /\ thr' = [Disturb(src) EXCEPT ![t] = IdleThread]
  /\ UNCHANGED <<vk, held, ret, poolVars, objVars, mapVars, policyVars, fenceVars>>

\* SamplerCache::~SamplerCache: purge(), then the members are destroyed.  No
\* thread is inside a call on the object.
CacheDtor(t, c) ==
  /\ thr[t].pc = "idle"
  /\ sc[c].life = "live"
  /\ \A u \in Threads : ~Inside(u, c)
  /\ vk' = vkDestroySamplers(vk, CacheHandles(sc[c].cache_))
  /\ sc' = [sc EXCEPT ![c] = UnbornCache]
  /\ seen' = [seen EXCEPT ![c] = NoneSeen]
  /\ UNCHANGED <<thr, held, ret, poolVars, objVars, mapVars, policyVars, fenceVars>>

\* --------------------------------------------- VulkanBuffer, VulkanImage
\* The places that hold a VulkanBuffer or a VulkanImage object.
Objs == {"x", "y"}

\* A VulkanBuffer object is the record of its members allocator_,
\* allocation_, handle_; a VulkanImage object that of allocator_, allocation_
\* and handles_ (image, image_view, sampler).  life tells whether the object
\* exists.
UnbornBuffer ==
  [ life |-> "unborn", allocator_ |-> Null, allocation_ |-> Null, handle_ |-> Null ]

UnbornImage ==
  [ life |-> "unborn", allocator_ |-> Null, allocation_ |-> Null, image |-> Null,
    image_view |-> Null, sampler |-> Null ]

\* What an object owns: <<object handle, view handle, allocation>>.
Owned(kind, o) ==
  IF kind = "buffer"
    THEN <<vbuf[o].handle_, Null, vbuf[o].allocation_>>
    ELSE <<vimg[o].image, vimg[o].image_view, vimg[o].allocation_>>

\* The outcome of a move from object src to object dst: prev is what the two
\* owned before it.
MoveRet(op, kind, dst, src) ==
  Outcome("move", [NoRet EXCEPT !.op = op, !.args = <<kind, dst, src>>,
                                !.prev = <<Owned(kind, dst), Owned(kind, src)>>])

\* VulkanBuffer::VulkanBuffer()
VulkanBufferDefault(o) ==
  /\ vbuf[o].life = "unborn"
  /\ vbuf' = [vbuf EXCEPT ![o] = [UnbornBuffer EXCEPT !.life = "live"]]
  /\ ret' = NoRet
  /\ UNCHANGED <<vk, vimg, held, poolVars, cacheVars, mapVars, policyVars, fenceVars>>

\* VulkanBuffer::VulkanBuffer(vma_allocator, size, mem_props): vmaCreateBuffer
\* makes the buffer and its allocation, or fails and makes neither; a failure
\* throws out of the constructor and no object exists.
VulkanBufferCtor(o, a, fail) ==
  /\ vbuf[o].life = "unborn"
  /\ a \in vk.allocators
  /\ vk.nobj < MaxObjects
  /\ fail \in {"none", "vmaCreateBuffer"}
  /\ LET n == vk.nobj + 1
     IN  /\ vk' = IF fail = "none" THEN vmaCreateObject(vk, a, n) ELSE vk
         /\ vbuf' = IF fail = "none"
                      THEN [vbuf EXCEPT ![o] = [life |-> "live", allocator_ |-> a,
                                                allocation_ |-> n, handle_ |-> n]]
                      ELSE vbuf
         /\ ret' = CreateRet("VulkanBuffer", o, fail, n, TRUE)
  /\ UNCHANGED <<vimg, held, poolVars, cacheVars, mapVars, policyVars, fenceVars>>

\* VulkanBuffer::VulkanBuffer(VulkanBuffer&&)
VulkanBufferMoveCtor(dst, src) ==
  /\ dst # src
  /\ vbuf[dst].life = "unborn"
  /\ vbuf[src].life = "live"
  /\ vbuf' = [vbuf EXCEPT ![dst] = vbuf[src],
                          ![src].allocation_ = Null,
                          ![src].handle_ = Null]
  /\ ret' = MoveRet("move_ctor", "buffer", dst, src)
  /\ UNCHANGED <<vk, vimg, held, poolVars, cacheVars, mapVars, policyVars, fenceVars>>

\* VulkanBuffer::operator=(VulkanBuffer&&): allocation_ and handle_ are
\* exchanged, allocator_ is copied.
VulkanBufferMoveAssign(dst, src) ==
  /\ vbuf[dst].life = "live"
  /\ vbuf[src].life = "live"
  /\ LET tmp_allocation == vbuf[dst].allocation_
         tmp_buffer == vbuf[dst].handle_
         d1 == [vbuf[dst] EXCEPT !.allocator_ = vbuf[src].allocator_,
                                 !.allocation_ = vbuf[src].allocation_,
                                 !.handle_ = vbuf[src].handle_]
         w == [vbuf EXCEPT ![dst] = d1]
     IN  vbuf' = [w EXCEPT ![src].allocation_ = tmp_allocation,
                           ![src].handle_ = tmp_buffer]
  /\ ret' = MoveRet("move_assign", "buffer", dst, src)
  /\ UNCHANGED <<vk, vimg, held, poolVars, cacheVars, mapVars, policyVars, fenceVars>>

\* VulkanBuffer::~VulkanBuffer
VulkanBufferDtor(o) ==
  /\ vbuf[o].life = "live"
  /\ vk' = IF vbuf[o].handle_ # Null
             THEN vmaDestroy(vk, vbuf[o].allocator_, vbuf[o].handle_, vbuf[o].allocation_)
             ELSE vk
  /\ vbuf' = [vbuf EXCEPT ![o] = UnbornBuffer]
  /\ ret' = NoRet
  /\ UNCHANGED <<vimg, held, poolVars, cacheVars, mapVars, policyVars, fenceVars>>

\* VulkanImage::VulkanImage()
VulkanImageDefault(o) ==
  /\ vimg[o].life = "unborn"
  /\ vimg' = [vimg EXCEPT ![o] = [UnbornImage EXCEPT !.life = "live"]]
  /\ ret' = NoRet
  /\ UNCHANGED <<vk, vbuf, held, poolVars, cacheVars, mapVars, policyVars, fenceVars>>

\* VulkanImage::VulkanImage(vma_allocator, device, ..., sampler):
\* vmaCreateImage, then vkCreateImageView.  Either VK_CHECK throws out of the
\* constructor: no object exists and the destructor does not run.
VulkanImageCtor(o, a, sampler, fail) ==
  /\ vimg[o].life = "unborn"
  /\ a \in vk.allocators
  /\ vk.nobj < MaxObjects
  /\ fail \in {"none", "vmaCreateImage", "vkCreateImageView"}
  /\ LET n == vk.nobj + 1
         v1 == vmaCreateObject(vk, a, n)
     IN  /\ vk' = CASE fail = "vmaCreateImage" -> vk
                    [] fail = "vkCreateImageView" -> v1
                    [] OTHER -> vkCreateImageView(v1, n)
         /\ vimg' = IF fail = "none"
                      THEN [vimg EXCEPT ![o] = [life |-> "live", allocator_ |-> a,
                                                allocation_ |-> n, image |-> n,
                                                image_view |-> n, sampler |-> sampler]]
                      ELSE vimg
         /\ ret' = CreateRet("VulkanImage", o, fail, n, TRUE)
  /\ UNCHANGED <<vbuf, held, poolVars, cacheVars, mapVars, policyVars, fenceVars>>

\* VulkanImage::VulkanImage(VulkanImage&&)
VulkanImageMoveCtor(dst, src) ==
  /\ dst # src
  /\ vimg[dst].life = "unborn"
  /\ vimg[src].life = "live"
  /\ vimg' = [vimg EXCEPT ![dst] = vimg[src],
                          ![src].allocation_ = Null,
                          ![src].image = Null,
                          ![src].image_view = Null,
                          ![src].sampler = Null]
  /\ ret' = MoveRet("move_ctor", "image", dst, src)
  /\ UNCHANGED <<vk, vbuf, held, poolVars, cacheVars, mapVars, policyVars, fenceVars>>

\* A move-assignment that hands the destination's members over and clears
\* the source.
VulkanImageMoveAssignClears(dst, src) ==
  /\ vimg[dst].life = "live"
  /\ vimg[src].life = "live"
  /\ dst # src
  /\ vimg' = [vimg EXCEPT ![dst] = vimg[src],
                          ![src].allocation_ = Null,
                          ![src].image = Null,
                          ![src].image_view = Null]
  /\ ret' = MoveRet("move_assign", "image", dst, src)
  /\ UNCHANGED <<vk, vbuf, held, poolVars, cacheVars, mapVars, policyVars, fenceVars>>

\* VulkanImage::operator=(VulkanImage&&): allocation_, image and image_view
\* are exchanged, allocator_ and the sampler are copied.
VulkanImageMoveAssign(dst, src) ==
  /\ vimg[dst].life = "live"
  /\ vimg[src].life = "live"
  /\ LET tmp_allocation == vimg[dst].allocation_
         tmp_image == vimg[dst].image
         tmp_image_view == vimg[dst].image_view
         d1 == [vimg[dst] EXCEPT !.allocator_ = vimg[src].allocator_,
                                 !.allocation_ = vimg[src].allocation_,
                                 !.image = vimg[src].image,
                                 !.image_view = vimg[src].image_view,
                                 !.sampler = vimg[src].sampler]
         w == [vimg EXCEPT ![dst] = d1]
     IN  vimg' = [w EXCEPT ![src].allocation_ = tmp_allocation,
                           ![src].image = tmp_image,
                           ![src].image_view = tmp_image_view]
  /\ ret' = MoveRet("move_assign", "image", dst, src)
  /\ UNCHANGED <<vk, vbuf, held, poolVars, cacheVars, mapVars, policyVars, fenceVars>>

\* VulkanImage::~VulkanImage
VulkanImageDtor(o) ==
  /\ vimg[o].life = "live"
  /\ LET v1 == IF vimg[o].image_view # Null
                 THEN vkDestroyImageView(vk, vimg[o].allocator_, vimg[o].image_view)
                 ELSE vk
     IN  vk' = IF vimg[o].image # Null
                 THEN vmaDestroy(v1, vimg[o].allocator_, vimg[o].image, vimg[o].allocation_)
                 ELSE v1
  /\ vimg' = [vimg EXCEPT ![o] = UnbornImage]
  /\ ret' = NoRet
  /\ UNCHANGED <<vbuf, held, poolVars, cacheVars, mapVars, policyVars, fenceVars>>

\* A default-constructed Resource::Buffer / Resource::Image value
EmptyBuffer == BufferValue(Null, Null)
EmptyImage == ImageValue(Null, Null, Null)

\* A caller calls release_buffer / release_image on a value it holds.
ReleaseBufferCall(buffer) ==
  /\ Idle
  /\ buffer.kind = "buffer"
  /\ vk' = release_buffer(vk, buffer)
  /\ ret' = NoRet
  /\ UNCHANGED <<held, poolVars, cacheVars, objVars, mapVars, policyVars, fenceVars>>

ReleaseImageCall(image) ==
  /\ Idle
  /\ image.kind = "image"
  /\ vk' = release_image(vk, image)
  /\ ret' = NoRet
  /\ UNCHANGED <<held, poolVars, cacheVars, objVars, mapVars, policyVars, fenceVars>>

\* ------------------------------------------------------ host memory maps
Maps == {"m", "n"}
Legacy == {"h"}

\* MemoryAccessType / Resource::Memory::Access flags
AccessFlags == SUBSET {"READ", "WRITE"}

\* A MemoryMap object is the value of access_, allocator_, allocation_ and
\* data_.  A legacy handle is the pointer map() returned together with the
\* Scope that closes it.
UnbornMap ==
  [ life |-> "unborn", access_ |-> {}, allocator_ |-> Null, allocation_ |-> Null,
    data_ |-> Null ]

UnbornHandle ==
  [ life |-> "unborn", data |-> Null, access_ |-> {}, allocator_ |-> Null,
    allocation_ |-> Null ]

\* No map is open.
NoMaps ==
  mm = [ map |-> [m \in Maps |-> UnbornMap],
         handle |-> [h \in Legacy |-> UnbornHandle] ]

\* The outcome of a call on a map: log is the native calls it made, args the
\* mapping path and the access flags, val the data pointer the call found
\* (close, invalidate) or produced (open).
MapRet(op, id, path, access, data, log, fail) ==
  Outcome(op, [NoRet EXCEPT !.op = op, !.p = id, !.args = <<path, access>>,
                            !.val = data, !.log = log, !.fail = fail,
                            !.result = IF fail = "none" THEN "returned" ELSE "raised"])

\* A MemoryMap constructor that invalidates eagerly when the access includes
\* read.
MemoryMapCtorInvalidates(m, o, access, ok) ==
  /\ mm.map[m].life = "unborn"
  /\ vbuf[o].life = "live" /\ vbuf[o].allocation_ # Null
  /\ access \in AccessFlags
  /\ LET n == vbuf[o].allocation_
     IN /\ mm' = IF ok
                   THEN [mm EXCEPT !.map[m] = [life |-> "live", access_ |-> access,
                                               allocator_ |-> vbuf[o].allocator_,
                                               allocation_ |-> n, data_ |-> n]]
                   ELSE mm
        /\ ret' = MapRet("open", m, "MemoryMap", access, IF ok THEN n ELSE Null,
                         IF ok /\ "READ" \in access
                           THEN <<"vmaMapMemory", "vmaInvalidateAllocation">>
                           ELSE <<"vmaMapMemory">>,
                         IF ok THEN "none" ELSE "vmaMapMemory")
  /\ UNCHANGED <<vk, held, poolVars, cacheVars, objVars, policyVars, fenceVars>>

\* MemoryMap::MemoryMap(const VulkanBuffer&, access): vmaMapMemory, checked by
\* VK_CHECK; when it fails no object comes to exist.
MemoryMapCtor(m, o, access, ok) ==
  /\ mm.map[m].life = "unborn"
  /\ vbuf[o].life = "live" /\ vbuf[o].allocation_ # Null
  /\ access \in AccessFlags
  /\ LET n == vbuf[o].allocation_
     IN /\ mm' = IF ok
                   THEN [mm EXCEPT !.map[m] = [life |-> "live", access_ |-> access,
                                               allocator_ |-> vbuf[o].allocator_,
                                               allocation_ |-> n, data_ |-> n]]
                   ELSE mm
        /\ ret' = MapRet("open", m, "MemoryMap", access, IF ok THEN n ELSE Null,
                         <<"vmaMapMemory">>, IF ok THEN "none" ELSE "vmaMapMemory")
  /\ UNCHANGED <<vk, held, poolVars, cacheVars, objVars, policyVars, fenceVars>>

\* MemoryMap::MemoryMap(MemoryMap&&): the source keeps access_ and allocator_
\* and loses allocation_ and data_.
MemoryMapMoveCtor(dst, src) ==
  /\ dst # src
  /\ mm.map[dst].life = "unborn"
  /\ mm.map[src].life = "live"
  /\ mm' = [mm EXCEPT !.map[dst] = mm.map[src],
                      !.map[src].allocation_ = Null,
                      !.map[src].data_ = Null]
  /\ ret' = NoRet
  /\ UNCHANGED <<vk, held, poolVars, cacheVars, objVars, policyVars, fenceVars>>

\* What closing a map does, in ~MemoryMap and in Scope::operator() alike:
\* nothing on a null pointer; else the flush of a map with write access,
\* checked by VK_CHECK, and then the unmap.
CloseLog(data, access, ok) ==
  IF data = Null THEN <<>>
  ELSE IF "WRITE" \in access
         THEN IF ok THEN <<"vmaFlushAllocation", "vmaUnmapMemory">>
                    ELSE <<"vmaFlushAllocation">>
         ELSE <<"vmaUnmapMemory">>

CloseFail(log) ==
  IF log = <<"vmaFlushAllocation">> THEN "vmaFlushAllocation" ELSE "none"

\* A destructor that unmaps without flushing.
MemoryMapDtorNoFlush(m, ok) ==
  /\ mm.map[m].life = "live"
  /\ LET M == mm.map[m]
         log == IF M.data_ = Null THEN <<>> ELSE <<"vmaUnmapMemory">>
     IN /\ mm' = [mm EXCEPT !.map[m] = [UnbornMap EXCEPT !.life = "destroyed"]]
        /\ ret' = MapRet("close", m, "MemoryMap", M.access_, M.data_, log, "none")
  /\ UNCHANGED <<vk, held, poolVars, cacheVars, objVars, policyVars, fenceVars>>

\* MemoryMap::~MemoryMap
MemoryMapDtor(m, ok) ==
  /\ mm.map[m].life = "live"
  /\ LET M == mm.map[m]
         log == CloseLog(M.data_, M.access_, ok)
     IN /\ ok \/ log = <<"vmaFlushAllocation">>
        /\ mm' = [mm EXCEPT !.map[m] = [UnbornMap EXCEPT !.life = "destroyed"]]
        /\ ret' = MapRet("close", m, "MemoryMap", M.access_, M.data_, log, CloseFail(log))
  /\ UNCHANGED <<vk, held, poolVars, cacheVars, objVars, policyVars, fenceVars>>

\* MemoryMap::invalidate: vmaInvalidateAllocation, checked by VK_CHECK, when
\* access_ includes read; allocation_ and data_ are not looked at.
MemoryMapInvalidate(m, ok) ==
  /\ mm.map[m].life = "live"
  /\ LET M == mm.map[m]
         log == IF "READ" \in M.access_ THEN <<"vmaInvalidateAllocation">> ELSE <<>>
     IN /\ ok \/ log # <<>>
        /\ ret' = MapRet("invalidate", m, "MemoryMap", M.access_, M.data_, log,
                         IF ok THEN "none" ELSE "vmaInvalidateAllocation")
  /\ UNCHANGED mm
  /\ UNCHANGED <<vk, held, poolVars, cacheVars, objVars, policyVars, fenceVars>>

\* map(memory, access) of the legacy path, on the memory of buffer o, and the
\* Scope made to close it: vmaMapMemory, then vmaInvalidateAllocation when
\* access includes read, each checked by VK_CHECK.
LegacyMap(h, o, access, fail) ==
  /\ mm.handle[h].life = "unborn"
  /\ vbuf[o].life = "live" /\ vbuf[o].allocation_ # Null
  /\ access \in AccessFlags
  /\ fail \in {"none", "vmaMapMemory", "vmaInvalidateAllocation"}
  /\ fail = "vmaInvalidateAllocation" => "READ" \in access
  /\ LET n == vbuf[o].allocation_
         log == IF fail # "vmaMapMemory" /\ "READ" \in access
                  THEN <<"vmaMapMemory", "vmaInvalidateAllocation">>
                  ELSE <<"vmaMapMemory">>
     IN /\ mm' = IF fail = "none"
                   THEN [mm EXCEPT !.handle[h] = [life |-> "live", data |-> n,
                                                  access_ |-> access,
                                                  allocator_ |-> vbuf[o].allocator_,
                                                  allocation_ |-> n]]
                   ELSE mm
        /\ ret' = MapRet("open", h, "map", access, IF fail = "none" THEN n ELSE Null,
                         log, fail)
  /\ UNCHANGED <<vk, held, poolVars, cacheVars, objVars, policyVars, fenceVars>>

\* Resource::Memory::Scope::operator()(data), called by the handle that owns
\* the pointer, which holds null afterwards.
ScopeCall(h, ok) ==
  /\ mm.handle[h].life = "live"
  /\ LET H == mm.handle[h]
         log == CloseLog(H.data, H.access_, ok)
     IN /\ ok \/ log = <<"vmaFlushAllocation">>
        /\ mm' = [mm EXCEPT !.handle[h].data = Null]
        /\ ret' = MapRet("close", h, "map", H.access_, H.data, log, CloseFail(log))
  /\ UNCHANGED <<vk, held, poolVars, cacheVars, objVars, policyVars, fenceVars>>

\* ------------------------------------------------------ Linear policy
Policies == {"k", "l"}
MemTypes == 0..(MaxMemTypes - 1)

\* A Linear object is its vector pools_ of entries {memory_type_index,
\* handle}; the handle is the VmaPool vmaCreatePool returned.
NoPolicies == lin = [q \in Policies |-> <<>>]

\* vmaFindMemoryTypeIndex: the first memory type the requirements' bits
\* allow; VK_ERROR_FEATURE_NOT_PRESENT (here -1) when they allow none.
vmaFindMemoryTypeIndex(bits) ==
  IF bits = {} THEN -1 ELSE CHOOSE i \in bits : \A j \in bits : i <= j

\* std::find_if over pools_ for the entry of a memory type: its position,
\* 0 when there is none.
FindPool(pools, index) ==
  IF \E i \in 1..Len(pools) : pools[i].memory_type_index = index
    THEN CHOOSE i \in 1..Len(pools) :
           /\ pools[i].memory_type_index = index
           /\ \A j \in 1..(i - 1) : pools[j].memory_type_index # index
    ELSE 0

\* The VmaPool handles alive in the policies.
VmaPools == UNION { { lin[q][i].handle : i \in 1..Len(lin[q]) } : q \in Policies }

\* The outcome of Linear::enact: args the bits and the index computed, prev
\* the sub-pool list before the call, val allocation_create_info.pool.
EnactRet(q, bits, index, fail, val) ==
  Outcome("enact", [NoRet EXCEPT !.op = "enact", !.p = q, !.args = <<bits, index>>,
                                 !.prev = lin[q], !.val = val, !.fail = fail,
                                 !.result = IF fail = "none" THEN "returned" ELSE "raised"])

\* An enact that creates a sub-pool at every call.
EnactNoFind(q, bits, ok) ==
  /\ bits \in SUBSET MemTypes
  /\ Len(lin[q]) < MaxMemTypes
  /\ LET index == vmaFindMemoryTypeIndex(bits)
         fresh == CHOOSE h \in 1..(2 * MaxMemTypes + 1) : h \notin VmaPools
     IN IF index = -1 \/ ~ok
          THEN /\ lin' = lin
               /\ ret' = EnactRet(q, bits, index, "vmaFindMemoryTypeIndex", Null)
          ELSE /\ lin' = [lin EXCEPT ![q] = Append(@, [memory_type_index |-> index,
                                                        handle |-> fresh])]
               /\ ret' = EnactRet(q, bits, index, "none", fresh)
  /\ UNCHANGED <<vk, held, poolVars, cacheVars, objVars, mapVars, fenceVars>>

\* Linear::enact on policy q for requirements with memoryTypeBits bits; ok
\* tells whether vmaCreatePool, when it is called, succeeds.
enact(q, bits, ok) ==
  /\ bits \in SUBSET MemTypes
  /\ LET index == vmaFindMemoryTypeIndex(bits)
         pool_itr == FindPool(lin[q], index)
         fresh == CHOOSE h \in 1..(2 * MaxMemTypes + 1) : h \notin VmaPools
     IN CASE index = -1 ->
               /\ ok
               /\ lin' = lin
               /\ ret' = EnactRet(q, bits, index, "vmaFindMemoryTypeIndex", Null)
          [] index # -1 /\ pool_itr # 0 ->
               /\ ok
               /\ lin' = lin
               /\ ret' = EnactRet(q, bits, index, "none", lin[q][pool_itr].handle)
          [] index # -1 /\ pool_itr = 0 /\ ~ok ->
               /\ lin' = lin
               /\ ret' = EnactRet(q, bits, index, "vmaCreatePool", Null)
          [] OTHER ->
               /\ lin' = [lin EXCEPT ![q] = Append(@, [memory_type_index |-> index,
                                                        handle |-> fresh])]
               /\ ret' = EnactRet(q, bits, index, "none", fresh)
  /\ UNCHANGED <<vk, held, poolVars, cacheVars, objVars, mapVars, fenceVars>>

\* ------------------------------------------------------ VulkanFence
FObjs == {"f", "g"}

UnbornFence == [ life |-> "unborn", device_ |-> FALSE, handle_ |-> Null, waiting_ |-> FALSE ]

NoFences == vfn = [o \in FObjs |-> UnbornFence]

\* VulkanFence::VulkanFence()
VulkanFenceDefault(o) ==
  /\ vfn[o].life # "live"
  /\ vfn' = [vfn EXCEPT ![o] = [UnbornFence EXCEPT !.life = "live"]]
  /\ UNCHANGED <<vk, held, ret, poolVars, cacheVars, objVars, mapVars, policyVars>>

\* VulkanFence::VulkanFence(const VkDevice): vkCreateFence under VK_CHECK; a
\* failing creation throws and no object is constructed.
VulkanFenceCtor(o, ok) ==
  /\ vfn[o].life # "live"
  /\ IF ok
       THEN /\ vk.nfence < MaxFences
            /\ LET f == vk.nfence + 1
               IN /\ vk' = [vk EXCEPT !.nfence = f, !.fences = @ \cup {f}]
                  /\ vfn' = [vfn EXCEPT ![o] = [ life |-> "live", device_ |-> TRUE,
                                                 handle_ |-> f, waiting_ |-> FALSE ]]
       ELSE UNCHANGED <<vk, vfn>>
  /\ UNCHANGED <<held, ret, poolVars, cacheVars, objVars, mapVars, policyVars>>

\* VulkanFence::VulkanFence(VulkanFence&&)
VulkanFenceMoveCtor(o, other) ==
  /\ o # other
  /\ vfn[o].life # "live"
  /\ vfn[other].life = "live"
  /\ vfn' = [vfn EXCEPT ![o] = [vfn[other] EXCEPT !.life = "live"],
                        ![other] = [vfn[other] EXCEPT !.handle_ = Null,
                                                      !.waiting_ = FALSE]]
  /\ UNCHANGED <<vk, held, ret, poolVars, cacheVars, objVars, mapVars, policyVars>>

\* VulkanFence::operator=(VulkanFence&&): the three members are overwritten
\* by the source's, then the source's are nulled (on a self-assignment these
\* are the members of the destination).
VulkanFenceMoveAssign(o, other) ==
  /\ vfn[o].life = "live"
  /\ vfn[other].life = "live"
  /\ vfn' = [vfn EXCEPT ![o] = vfn[other],
                        ![other] = [UnbornFence EXCEPT !.life = "live"]]
  /\ UNCHANGED <<vk, held, ret, poolVars, cacheVars, objVars, mapVars, policyVars>>

\* VulkanFence::~VulkanFence
VulkanFenceDtor(o) ==
  /\ vfn[o].life = "live"
  /\ LET h == vfn[o].handle_
     IN vk' = IF h = Null THEN vk
              ELSE IF h \in vk.fences THEN vkDestroyFences(vk, {h})
              ELSE [vk EXCEPT !.events = @ \cup {<<"double_destroy_fence", h>>}]
  /\ vfn' = [vfn EXCEPT ![o] = [UnbornFence EXCEPT !.life = "destroyed"]]
  /\ UNCHANGED <<held, ret, poolVars, cacheVars, objVars, mapVars, policyVars>>

\* VulkanFence::get_submit_handle: marks the fence as waiting and hands the
\* native fence to a queue submission.
get_submit_handle(o) ==
  /\ vfn[o].life = "live"
  /\ vfn[o].handle_ # Null
  /\ ~vfn[o].waiting_
  /\ vfn' = [vfn EXCEPT ![o].waiting_ = TRUE]
  /\ vk' = [vk EXCEPT !.pending = @ \cup {vfn[o].handle_}]
  /\ UNCHANGED <<held, ret, poolVars, cacheVars, objVars, mapVars, policyVars>>

\* VulkanFence::wait: nothing when waiting_ is false; otherwise
\* vkWaitForFences, which returns once the fence is signaled, vkResetFences
\* and waiting_ = false.  A result other than VK_SUCCESS throws from VK_CHECK
\* and leaves waiting_.
VulkanFenceWait(o, result) ==
  /\ vfn[o].life = "live"
  /\ IF ~vfn[o].waiting_
       THEN /\ result = "VK_SUCCESS"
            /\ UNCHANGED <<vk, vfn>>
       ELSE IF result = "VK_SUCCESS"
         THEN /\ vfn[o].handle_ \in vk.signaled
              /\ vk' = vkResetFences(vk, {vfn[o].handle_})
              /\ vfn' = [vfn EXCEPT ![o].waiting_ = FALSE]
         ELSE UNCHANGED <<vk, vfn>>
  /\ UNCHANGED <<held, ret, poolVars, cacheVars, objVars, mapVars, policyVars>>

\* ------------------------------------------------------ specifications
\* No SamplerCache object and no thread is in use.
NoCaches ==
  /\ sc = [c \in Caches |-> UnbornCache]
  /\ thr = [t \in Threads |-> IdleThread]
  /\ seen = [c \in Caches |-> NoneSeen]

\* No VulkanBuffer or VulkanImage object exists.
NoObjects ==
  /\ vbuf = [o \in Objs |-> UnbornBuffer]
  /\ vimg = [o \in Objs |-> UnbornImage]

\* No pool exists.
NoPools ==
  /\ pool = [p \in Pools |-> UnbornPool]
  /\ pc = IdlePc
  /\ hist = HistInit({})

PoolInit ==
  /\ vk = [VkInit EXCEPT !.nallocator = 1, !.allocators = {1}]
  /\ pool = [p \in Pools |->
       IF p = "a"
         THEN [UnbornPool EXCEPT !.life = "live", !.device_ = TRUE,
                                 !.allocator_ = 1, !.memory_ = TRUE]
         ELSE UnbornPool]
  /\ pc = IdlePc
  /\ held = {}
  /\ ret = NoRet
  /\ hist = HistInit({"purge"})
  /\ NoCaches
  /\ NoObjects
  /\ NoMaps
  /\ NoPolicies
  /\ NoFences

\* One pool, "a", with every operation on it; one sampler key.
Key1 == CHOOSE k \in Props : k.filter = 1

PurgeNext ==
  \/ DtorCall("a")
  \/ DtorMembers
  \/ PurgeCall("a")
  \/ PurgeWait
  \/ PurgeWaitRaise
  \/ \E ok \in BOOLEAN : PurgeReset(ok)
  \/ PurgeClearWaitlist
  \/ PurgeRelease
  \/ create_buffer("a", "none")
  \/ create_image("a", Key1, "none")
  \/ \E b \in held : register_buffer_cleanup("a", b)
  \/ \E i \in held : register_image_cleanup("a", i)
  \/ fence("a")
  \/ \E id \in 0..(MaxFences - 1) : FenceHandle("a", id)
  \/ \E id \in 0..(MaxFences - 1) : FenceWaitCall("a", id)
  \/ \E ok \in BOOLEAN : FenceWaitReturn(ok)
  \/ \E result \in {"VK_TIMEOUT", "VK_ERROR_DEVICE_LOST"} : FenceWaitRaise(result)
  \/ \E f \in FenceIds : DeviceSignal(f)

SpecPurge == PoolInit /\ [][PurgeNext]_vars

\* Two pool objects and the moves between them.  Pool "a" creates buffers,
\* registers them and issues fences, each fence submitted once until it
\* leaves the wait-list; pool "b" is constructed, moved to and from, purged
\* and destroyed.
MoveNext ==
  \/ \E p \in Pools : PoolCtor(p)
  \/ \E dst \in Pools, src \in Pools : PoolMoveCtor(dst, src)
  \/ \E dst \in Pools, src \in Pools : PoolMoveAssign(dst, src)
  \/ \E p \in Pools : DtorCall(p)
  \/ DtorMembers
  \/ \E p \in Pools : PurgeCall(p)
  \/ PurgeWait
  \/ PurgeWaitRaise
  \/ \E ok \in BOOLEAN : PurgeReset(ok)
  \/ PurgeClearWaitlist
  \/ PurgeRelease
  \/ create_buffer("a", "none")
  \/ \E b \in held : register_buffer_cleanup("a", b)
  \/ fence("a")
  \/ \E id \in 0..(MaxFences - 1) :
        /\ id < Len(pool["a"].fence_.pool)
        /\ pool["a"].fence_.pool[id + 1] \notin Range(pool["a"].fence_.waitlist)
        /\ FenceHandle("a", id)
  \/ \E f \in FenceIds : DeviceSignal(f)

MoveInit == PoolInit

SpecMove == MoveInit /\ [][MoveNext]_vars

\* One pool and its fences: handles are issued, submitted any number of
\* times, waited on and purged, while the device signals the fences.
FenceInit ==
  /\ vk = [VkInit EXCEPT !.nallocator = 1, !.allocators = {1}]
  /\ pool = [p \in Pools |->
       IF p = "a"
         THEN [UnbornPool EXCEPT !.life = "live", !.device_ = TRUE,
                                 !.allocator_ = 1, !.memory_ = TRUE]
         ELSE UnbornPool]
  /\ pc = IdlePc
  /\ held = {}
  /\ ret = NoRet
  /\ hist = HistInit({"wait", "fence"})
  /\ NoCaches
  /\ NoObjects
  /\ NoMaps
  /\ NoPolicies
  /\ NoFences

FenceNext ==
  \/ fence("a")
  \/ \E id \in 0..(MaxFences - 1) : FenceHandle("a", id)
  \/ \E id \in 0..(MaxFences - 1) : FenceWaitCall("a", id)
  \/ \E ok \in BOOLEAN : FenceWaitReturn(ok)
  \/ \E result \in {"VK_TIMEOUT", "VK_ERROR_DEVICE_LOST"} : FenceWaitRaise(result)
  \/ \E f \in FenceIds : DeviceSignal(f)
  \/ PurgeCall("a")
  \/ PurgeWait
  \/ PurgeWaitRaise
  \/ \E ok \in BOOLEAN : PurgeReset(ok)
  \/ PurgeClearWaitlist
  \/ PurgeRelease

SpecFence == FenceInit /\ [][FenceNext]_vars

\* Two pool objects whose images share samplers through the pool's cache:
\* images are created with every key, registered and purged, and the pools
\* are constructed, moved, move-assigned and destroyed.  No fence is issued,
\* so a purge goes straight to the release lists.
SamplerInit ==
  /\ vk = [VkInit EXCEPT !.nallocator = 1, !.allocators = {1}]
  /\ pool = [p \in Pools |->
       IF p = "a"
         THEN [UnbornPool EXCEPT !.life = "live", !.device_ = TRUE,
                                 !.allocator_ = 1, !.memory_ = TRUE]
         ELSE UnbornPool]
  /\ pc = IdlePc
  /\ held = {}
  /\ ret = NoRet
  /\ hist = HistInit({"sampler"})
  /\ NoCaches
  /\ NoObjects
  /\ NoMaps
  /\ NoPolicies
  /\ NoFences

SamplerNext ==
  \/ \E p \in Pools : PoolCtor(p)
  \/ \E dst \in Pools, src \in Pools : PoolMoveCtor(dst, src)
  \/ \E dst \in Pools, src \in Pools : PoolMoveAssign(dst, src)
  \/ \E p \in Pools : DtorCall(p)
  \/ DtorMembers
  \/ \E p \in Pools : PurgeCall(p)
  \/ PurgeRelease
  \/ \E p \in Pools, key \in Props, fail \in {"none", "vkCreateImageView", "vkCreateSampler"} :
        create_image(p, key, fail)
  \/ \E p \in Pools, i \in held : register_image_cleanup(p, i)

SpecSampler == SamplerInit /\ [][SamplerNext]_vars

\* The sampler cache "c" exists; threads call retrieve and purge on the
\* caches, move-construct "d" from "c", and destroy and construct "d".
CacheInit ==
  /\ vk = VkInit
  /\ sc = [c \in Caches |-> IF c = "c"
                               THEN [UnbornCache EXCEPT !.life = "live", !.device_ = TRUE]
                               ELSE UnbornCache]
  /\ thr = [t \in Threads |-> IdleThread]
  /\ seen = [c \in Caches |-> NoneSeen]
  /\ held = {}
  /\ ret = NoRet
  /\ NoPools
  /\ NoObjects
  /\ NoMaps
  /\ NoPolicies
  /\ NoFences

CacheNext ==
  \/ \E t \in Threads : CacheCtor(t, "d")
  \/ \E t \in Threads, c \in Caches, key \in Props : RetrieveCall(t, c, key)
  \/ \E t \in Threads : RetrieveLock(t)
  \/ \E t \in Threads : RetrieveFind(t)
  \/ \E t \in Threads, ok \in BOOLEAN : RetrieveInsert(t, ok)
  \/ \E t \in Threads, garbage \in 0..MaxSamplers : RetrieveRead(t, garbage)
  \/ \E t \in Threads : RetrieveUnlock(t)
  \/ \E t \in Threads, c \in Caches : CachePurge(t, c)
  \/ \E t \in Threads : CacheMoveLock(t, "d", "c")
  \/ \E t \in Threads : CacheMove(t)
  \/ \E t \in Threads : CacheDtor(t, "d")

SpecCache == CacheInit /\ [][CacheNext]_vars

\* The direct path and the pool path side by side: VulkanBuffer and
\* VulkanImage objects are constructed through either of two allocators,
\* moved, move-assigned and destroyed; pool "a" creates buffers and images,
\* with every native call of the creation failing in turn, and registers
\* the buffers; callers call the release functions on the values they hold
\* and on empty values.
ObjInit ==
  /\ vk = [VkInit EXCEPT !.nallocator = MaxAllocators, !.allocators = 1..MaxAllocators]
  /\ pool = [p \in Pools |->
       IF p = "a"
         THEN [UnbornPool EXCEPT !.life = "live", !.device_ = TRUE,
                                 !.allocator_ = 1, !.memory_ = TRUE]
         ELSE UnbornPool]
  /\ pc = IdlePc
  /\ held = {}
  /\ ret = NoRet
  /\ hist = HistInit({"create", "move"})
  /\ NoCaches
  /\ NoObjects
  /\ NoMaps
  /\ NoPolicies
  /\ NoFences

ObjNext ==
  \/ \E o \in Objs : VulkanBufferDefault(o)
  \/ \E o \in Objs, a \in 1..MaxAllocators, fail \in {"none", "vmaCreateBuffer"} :
        VulkanBufferCtor(o, a, fail)
  \/ \E dst \in Objs, src \in Objs : VulkanBufferMoveCtor(dst, src)
  \/ \E dst \in Objs, src \in Objs : VulkanBufferMoveAssign(dst, src)
  \/ \E o \in Objs : VulkanBufferDtor(o)
  \/ \E o \in Objs : VulkanImageDefault(o)
  \/ \E o \in Objs, a \in 1..MaxAllocators,
         fail \in {"none", "vmaCreateImage", "vkCreateImageView"} :
        VulkanImageCtor(o, a, Null, fail)
  \/ \E dst \in Objs, src \in Objs : VulkanImageMoveCtor(dst, src)
  \/ \E dst \in Objs, src \in Objs : VulkanImageMoveAssign(dst, src)
  \/ \E o \in Objs : VulkanImageDtor(o)
  \/ \E fail \in {"none", "vkCreateBuffer", "enact", "vmaAllocateMemory",
                   "vmaBindBufferMemory"} : create_buffer("a", fail)
  \/ \E fail \in {"none", "vkCreateImage", "enact", "vmaAllocateMemory",
                   "vmaBindImageMemory", "vkCreateImageView", "vkCreateSampler"} :
        create_image("a", Key1, fail)
  \/ \E b \in held : register_buffer_cleanup("a", b)
  \/ \E b \in held \cup {EmptyBuffer} : ReleaseBufferCall(b)
  \/ \E i \in held \cup {EmptyImage} : ReleaseImageCall(i)

SpecObj == ObjInit /\ [][ObjNext]_vars

\* ------------------------------------------------------------ claims

\* C1: the release function of a registered buffer or image never runs
\* while the wait-list of the pool holding it still contains a fence that
\* has not been signaled.
C1_NoReleaseWhileFencePending == hist.unsafe = {}

\* C2: within one purge the steps are: wait for every fence of the wait-list
\* at the call, reset them, clear the wait-list, then clear the release
\* lists; purge ends normally only after all those fences were signaled,
\* nothing is released before the release step, and a purge that raises
\* (the wait or the reset failed) has released nothing.
C2_PurgeOrder ==
  /\ (ret.op = "purge" /\ ret.result = "returned") =>
       /\ ret.waited
       /\ ret.log = IF ret.nwait = 0 THEN <<"release">>
                    ELSE <<"wait", "reset", "clear_waitlist", "release">>
  /\ (ret.op = "purge" /\ ret.result = "raised") =>
       /\ ret.released = {}
       /\ "release" \notin Range(ret.log)
  /\ pc.op \in {"purge_wait", "purge_reset", "purge_clear_waitlist"} =>
       pc.lists = Handles(pool[pc.p].image_.pool) \cup Handles(pool[pc.p].buffer_.pool)
  /\ pc.op \in {"purge_reset", "purge_clear_waitlist"} => Range(pc.snap) \subseteq pc.sig

C2_Witness ==
  /\ ret.op = "purge" /\ ret.result = "returned"
  /\ ret.nwait = 2
  /\ ret.released # {}

\* C3: a purge that returns normally leaves the in-use counter 0, the
\* wait-list empty, both release lists empty, and the fence array no
\* shorter than it was at the call.
C3_AfterPurge ==
  (ret.op = "purge" /\ ret.result = "returned" /\ Live(ret.p)) =>
    /\ pool[ret.p].fence_.in_use = 0
    /\ pool[ret.p].fence_.waitlist = <<>>
    /\ pool[ret.p].buffer_.pool = <<>>
    /\ pool[ret.p].image_.pool = <<>>
    /\ Len(pool[ret.p].fence_.pool) >= ret.slots

C3_Witness ==
  /\ ret.op = "purge" /\ ret.result = "returned" /\ Live(ret.p)
  /\ ret.slots = 2 /\ ret.nwait > 0
  /\ Cardinality(ret.released) = 2
\* C4: for concurrent retrieve calls with one key on one cache, with no purge
\* or move of the cache in between, the sampler is constructed exactly once
\* and every call returns the same handle.
C4_RetrieveConstructsOnce ==
  \A c \in Caches, k \in Props :
    /\ seen[c].built[k] <= 1
    /\ seen[c].calls[k] > 0 =>
         /\ seen[c].built[k] = 1
         /\ Cardinality(seen[c].handles[k]) = 1

C4_Witness ==
  \E k \in Props :
    /\ seen["c"].calls[k] = MaxThreads
    /\ seen["c"].built[k] = 1
    /\ \E t \in Threads : thr[t].pc = "lock" /\ thr[t].c = "c" /\ thr[t].key = k
    /\ sc["c"].cache_mutex_ # Null

\* C5: retrieve is atomic with respect to purge and to move-construction:
\* no step of the other operation takes effect between the lookup, the insert
\* and the read of retrieve, so the handle retrieve returns was the handle of
\* an entry of the cache when retrieve read it.
C5_RetrieveAtomic ==
  \A t \in Threads : thr[t].pc = "unlock" => thr[t].live
\* C6 as stated.  Two create_image calls on one pool object with equal
\* sampler properties, whatever the pool operations in between short of the
\* pool's teardown, return images with the identical sampler handle.
C6_SameSamplerPerPool ==
  \A p \in Pools, k \in Props : Cardinality(hist.images[p][k]) <= 1

\* C6: two create_image calls on one pool with equal sampler properties
\* return images with the identical sampler handle, whatever the pool
\* operations in between other than the pool's teardown or a move-assignment
\* onto the pool, which replaces its sampler cache; the cache holds at most
\* one entry per properties value and an entry only for properties that a
\* create_image has looked up.
C6_SameSamplerPerCache ==
  \A p \in Pools, k \in Props :
    /\ Cardinality(hist.cached[p][k]) <= 1
    /\ Cardinality(CacheFind(pool[p].image_.sampler, k)) <= 1
    /\ CacheHandles(CacheFind(pool[p].image_.sampler, k)) = hist.cached[p][k]

C6_Witness ==
  \E p \in Pools, k \in Props, i1 \in held, i2 \in held :
    /\ i1 # i2
    /\ i1.kind = "image" /\ i2.kind = "image"
    /\ hist.images[p][k] = {i1.sampler}
    /\ i2.sampler = i1.sampler
    /\ i1.sampler # Null
    /\ vk.nsampler = 1
    /\ Live(p)
    /\ i1.handle \notin vk.objects /\ i2.handle \in vk.objects
\* C7: over construction, move-construction, move-assignment and destruction
\* of buffers and images, and calls of release_buffer / release_image, a
\* native buffer or image and its allocation are destroyed exactly once and
\* through the allocator that allocated them: no destroy call is made on a
\* handle that was destroyed before (a second release is no native destroy
\* call), none through another allocator.
C7_DestroyedOnce ==
  \A e \in vk.events : e[1] \notin {"double_destroy", "double_destroy_view", "wrong_allocator"}

C9_ViewFailureReleasesImage ==
  (ret.op \in {"VulkanImage", "create_image"} /\ ret.fail = "vkCreateImageView") =>
    /\ ret.result = "raised"
    /\ ret.val \notin vk.objects
    /\ ret.val \notin vk.allocations

\* C10: when the memory allocation or the memory bind fails in create_buffer,
\* on the direct path (VulkanBuffer) and on the pool path, the call raises,
\* no native buffer or allocation made by the call remains allocated, and
\* the pool's release lists, fence array and wait-list are unchanged.
C10_CreateBufferFailure ==
  (/\ ret.op \in {"VulkanBuffer", "create_buffer"}
   /\ ret.fail \in {"vmaCreateBuffer", "vmaAllocateMemory", "vmaBindBufferMemory"}) =>
    /\ ret.result = "raised"
    /\ ret.val \notin vk.objects
    /\ ret.val \notin vk.allocations
    /\ ret.frame
\* Two buffers and the host memory maps over them: MemoryMap objects are
\* opened, moved, invalidated and closed, and the legacy map function opens
\* a pointer that its Scope closes.
MapInit ==
  /\ vk = vmaCreateObject(vmaCreateObject(
            [VkInit EXCEPT !.nallocator = 1, !.allocators = {1}, !.nobj = 2], 1, 1), 1, 2)
  /\ pool = [p \in Pools |-> UnbornPool]
  /\ pc = IdlePc
  /\ held = {}
  /\ ret = NoRet
  /\ hist = HistInit({"open", "close", "invalidate"})
  /\ NoCaches
  /\ vbuf = [o \in Objs |->
       LET n == IF o = "x" THEN 1 ELSE 2
       IN [life |-> "live", allocator_ |-> 1, allocation_ |-> n, handle_ |-> n]]
  /\ vimg = [o \in Objs |-> UnbornImage]
  /\ NoMaps
  /\ NoPolicies
  /\ NoFences

MapNext ==
  \/ \E m \in Maps, o \in Objs, access \in AccessFlags, ok \in BOOLEAN :
        MemoryMapCtor(m, o, access, ok)
  \/ \E dst \in Maps, src \in Maps : MemoryMapMoveCtor(dst, src)
  \/ \E m \in Maps, ok \in BOOLEAN : MemoryMapDtor(m, ok)
  \/ \E m \in Maps, ok \in BOOLEAN : MemoryMapInvalidate(m, ok)
  \/ \E h \in Legacy, o \in Objs, access \in AccessFlags,
        fail \in {"none", "vmaMapMemory", "vmaInvalidateAllocation"} :
        LegacyMap(h, o, access, fail)
  \/ \E h \in Legacy, ok \in BOOLEAN : ScopeCall(h, ok)

SpecMap == MapInit /\ [][MapNext]_vars

\* Pool "a" creates images, registers them and issues fences; it is purged,
\* assigned to and from pool "b", and the pools are destroyed, also when the
\* final purge raises.
TeardownNext ==
  \/ PoolCtor("b")
  \/ \E dst \in Pools, src \in Pools : PoolMoveAssign(dst, src)
  \/ \E p \in Pools : DtorCall(p)
  \/ DtorMembers
  \/ \E p \in Pools : PurgeCall(p)
  \/ PurgeWait
  \/ PurgeWaitRaise
  \/ \E ok \in BOOLEAN : PurgeReset(ok)
  \/ PurgeClearWaitlist
  \/ PurgeRelease
  \/ \E key \in Props : create_image("a", key, "none")
  \/ \E i \in held : register_image_cleanup("a", i)
  \/ fence("a")
  \/ /\ pool["a"].fence_.waitlist = <<>>
     /\ FenceHandle("a", 0)
  \/ \E f \in FenceIds : DeviceSignal(f)

SpecTeardown == PoolInit /\ [][TeardownNext]_vars

\* Two Linear policy objects and the enact calls on them.
PolicyInit ==
  /\ vk = [VkInit EXCEPT !.nallocator = 1, !.allocators = {1}]
  /\ pool = [p \in Pools |-> UnbornPool]
  /\ pc = IdlePc
  /\ held = {}
  /\ ret = NoRet
  /\ hist = HistInit({"enact"})
  /\ NoCaches
  /\ NoObjects
  /\ NoMaps
  /\ NoPolicies
  /\ NoFences

PolicyNext ==
  \E q \in Policies, bits \in SUBSET MemTypes, ok \in BOOLEAN : enact(q, bits, ok)

SpecPolicy == PolicyInit /\ [][PolicyNext]_vars

\* C11: Fence::wait on a handle whose fence is not on the pool's wait-list
\* returns at once: it makes no native wait and no native reset and leaves
\* the native world and the pool (wait-list, in-use counter, fence array)
\* unchanged; a wait only ever blocks on a fence that is on the wait-list.
C11_WaitNotSubmittedIsNoOp ==
  /\ (ret.op = "wait" /\ ret.fail = "not_on_waitlist") =>
       /\ ret.result = "returned"
       /\ ret.log = <<>>
       /\ ret.frame
  /\ pc.op = "wait_block" => pc.f \in Range(pool[pc.p].fence_.waitlist)

C11_Witness ==
  /\ ret.op = "wait" /\ ret.fail = "not_on_waitlist"
  /\ pool[ret.p].fence_.waitlist # <<>>
  /\ pool[ret.p].fence_.in_use = 0
  /\ ret.nwait = 0

\* C12: a Fence::wait on a handle whose fence is on the wait-list, once the
\* device has signaled the fence, has waited, reset the fence to unsignaled
\* and removed it from the wait-list: after wait returns the fence is not on
\* the wait-list, however often the handle was submitted before.
C12_WaitRemovesFence ==
  (ret.op = "wait" /\ ret.result = "returned" /\ ret.fail = "none") =>
    /\ ret.log = <<"vkWaitForFences", "vkResetFences", "erase">>
    /\ ~ret.waited
    /\ ret.nwait = 0

\* C13 as stated.  When the timeout elapses before the device signals the
\* fence, wait stops blocking, resets the fence and removes it from the
\* wait-list, as in the signaled case.
C13_TimeoutResetsAndRemoves ==
  (ret.op = "wait" /\ ret.fail = "VK_TIMEOUT") =>
    /\ ret.result = "returned"
    /\ ret.nwait = 0

\* C13: when the timeout elapses before the device signals the fence, wait
\* stops blocking and raises: it makes no native reset, and the fence stays
\* on the wait-list with the pool and the native world unchanged.
C13_TimeoutRaises ==
  (ret.op = "wait" /\ ret.fail = "VK_TIMEOUT") =>
    /\ ret.result = "raised"
    /\ ret.log = <<"vkWaitForFences">>
    /\ ret.frame
    /\ ret.nwait > 0

C13_Witness ==
  /\ ret.op = "wait" /\ ret.fail = "VK_TIMEOUT"
  /\ ret.val \in vk.pending

InUseWithinSlots ==
  \A p \in Pools : Active(p) => pool[p].fence_.in_use <= Len(pool[p].fence_.pool)

\* C15 as stated.  In an Active pool the in-use counter is at most the number
\* of fence slots; over the operations of a pool the counter decreases only
\* in purge, which sets it to zero, and increases only in fence().
C15_InUseOnlyPurgeAndFence ==
  /\ []InUseWithinSlots
  /\ [][\A p \in Pools : (Active(p) /\ Active(p)') =>
           /\ pool'[p].fence_.in_use < pool[p].fence_.in_use =>
                (PurgeRelease /\ pc.p = p /\ pool'[p].fence_.in_use = 0)
           /\ pool'[p].fence_.in_use > pool[p].fence_.in_use => fence(p)]_vars

\* C15: in an Active pool the in-use counter is at most the number of fence
\* slots; the counter decreases only in purge, which sets it to zero, and
\* increases only in fence(), except that a move-assignment onto the pool
\* replaces the counter, with the fence array, by those of the source pool.
C15_InUseMonotoneButMove ==
  /\ []InUseWithinSlots
  /\ [][\A p \in Pools : (Active(p) /\ Active(p)') =>
           \/ \E src \in Pools \ {p} :
                 /\ PoolMoveAssign(p, src)
                 /\ pool'[p].fence_ = pool[src].fence_
           \/ /\ pool'[p].fence_.in_use < pool[p].fence_.in_use =>
                   (PurgeRelease /\ pc.p = p /\ pool'[p].fence_.in_use = 0)
              /\ pool'[p].fence_.in_use > pool[p].fence_.in_use => fence(p)]_vars

C15_Witness ==
  /\ ret.op = "purge" /\ ret.result = "returned"
  /\ ret.p = "b" /\ Active("b")
  /\ ret.slots = MaxFences
  /\ pool[ret.p].fence_.in_use = 0
  /\ Len(pool[ret.p].fence_.pool) = ret.slots
\* C16: a pool that has been moved from is Invalidated, and an operation on an
\* Invalidated pool (here the registration of a buffer or an image for
\* cleanup) is rejected and leaves the pool's release lists, fence array,
\* in-use counter and wait-list unchanged.
C16_MovedFromPoolRejectsOperations ==
  [][\A p \in Pools :
       /\ (\E dst \in Pools \ {p} : PoolMoveCtor(dst, p) \/ PoolMoveAssign(dst, p))
            => ~Active(p)'
       /\ (/\ Live(p) /\ ~Active(p)
           /\ \E r \in held : register_buffer_cleanup(p, r) \/ register_image_cleanup(p, r))
            => pool'[p] = pool[p]]_vars
\* The thread is inside Resource::Pool::purge.
InPurge(c) ==
  c.op \in {"purge_wait", "purge_reset", "purge_clear_waitlist", "purge_release"}

\* C17: the destructor of an Active pool enters purge once and goes on to
\* destroy the members however that purge ends, so nothing is raised to the
\* caller; the destructor of an Invalidated pool enters no purge, waits on
\* no fence and releases no resource.
C17_DestructorPurgesOnce ==
  [][/\ \A p \in Pools : DtorCall(p) =>
          IF Active(p) THEN InPurge(pc') /\ pc'.dtor /\ pc'.p = p
                       ELSE pc'.op = "dtor_members" /\ pc'.p = p
     /\ (InPurge(pc) /\ pc.dtor /\ ~InPurge(pc')) =>
          pc'.op = "dtor_members" /\ pc'.p = pc.p
     /\ (pc.op = "dtor_members" /\ pc' # pc) =>
          /\ Idle' /\ pool'[pc.p].life = "destroyed"
          /\ ~Active(pc.p) =>
               /\ vk'.objects = vk.objects
               /\ hist'.released = hist.released]_vars
\* C18: whenever the release function of a pooled buffer or image runs (in
\* purge, in the destruction of a pool, or in a move-assignment onto a pool
\* that holds registered resources) the allocator recorded in the resource
\* has not been destroyed yet.
C18_AllocatorOutlivesResources ==
  \A e \in vk.events : e[1] # "dead_allocator"
\* C19: closing a live map (in ~MemoryMap or in Scope::operator()) whose
\* access includes write issues exactly one flush, and issues it before the
\* unmap; closing a live map without write access issues no flush; closing
\* a null, moved-from or already-unmapped map issues no flush and no unmap.
C19_CloseFlushesWrites ==
  ret.op = "close" =>
    LET access == ret.args[2]
    IN /\ ret.val = Null => ret.log = <<>>
       /\ (ret.val # Null /\ "WRITE" \in access) =>
            /\ ret.log[1] = "vmaFlushAllocation"
            /\ Count(ret.log, "vmaFlushAllocation") = 1
            /\ ret.result = "returned" =>
                 ret.log = <<"vmaFlushAllocation", "vmaUnmapMemory">>
       /\ (ret.val # Null /\ "WRITE" \notin access) => ret.log = <<"vmaUnmapMemory">>

C19_Witness ==
  /\ ret.op = "close" /\ ret.args[1] = "MemoryMap"
  /\ ret.log = <<"vmaFlushAllocation", "vmaUnmapMemory">>
  /\ \E m \in Maps : mm.map[m].life = "live" /\ mm.map[m].data_ = Null

\* C20 as stated.  Opening a map issues no invalidate, on the MemoryMap path
\* and on the legacy map path; an invalidate is issued only by invalidate()
\* on a live map, once per call, and only when the access includes read.
C20_NoInvalidateOnOpen ==
  /\ ret.op \in {"open", "close"} => "vmaInvalidateAllocation" \notin Range(ret.log)
  /\ ret.op = "invalidate" =>
       ret.log = IF "READ" \in ret.args[2] /\ ret.val # Null
                   THEN <<"vmaInvalidateAllocation">> ELSE <<>>

\* C20: the MemoryMap constructor issues no invalidate; the legacy map
\* function issues one right after a successful vmaMapMemory when the access
\* includes read; invalidate() issues one per call when the access includes
\* read, without looking at whether the map is still live; closing a map
\* issues none.
C20_InvalidateOnLegacyOpen ==
  /\ ret.op = "open" =>
       ("vmaInvalidateAllocation" \in Range(ret.log)
          <=> (ret.args[1] = "map" /\ "READ" \in ret.args[2] /\ ret.fail # "vmaMapMemory"))
  /\ ret.op = "open" => Count(ret.log, "vmaInvalidateAllocation") <= 1
  /\ ret.op = "close" => "vmaInvalidateAllocation" \notin Range(ret.log)
  /\ ret.op = "invalidate" =>
       ret.log = IF "READ" \in ret.args[2] THEN <<"vmaInvalidateAllocation">> ELSE <<>>

C20_Witness ==
  /\ ret.op = "invalidate" /\ ret.log = <<"vmaInvalidateAllocation">>
  /\ ret.val # Null
  /\ \E h \in Legacy : mm.handle[h].life = "live" /\ "READ" \in mm.handle[h].access_
\* C21: a Linear policy holds at most one sub-pool per memory-type index;
\* an enact that returns sets the request's pool to the sub-pool of the
\* index computed for the request, appending exactly one sub-pool when the
\* list has none for that index and leaving the list unchanged otherwise.
C21_OneSubPoolPerMemoryType ==
  /\ \A q \in Policies : \A i, j \in 1..Len(lin[q]) :
       lin[q][i].memory_type_index = lin[q][j].memory_type_index => i = j
  /\ (ret.op = "enact" /\ ret.result = "returned") =>
       LET before == ret.prev
           after == lin[ret.p]
           index == ret.args[2]
       IN /\ index = vmaFindMemoryTypeIndex(ret.args[1])
          /\ \E i \in 1..Len(after) :
               after[i].memory_type_index = index /\ after[i].handle = ret.val
          /\ IF FindPool(before, index) = 0
               THEN /\ Len(after) = Len(before) + 1
                    /\ SubSeq(after, 1, Len(before)) = before
                    /\ ret.val \notin { before[i].handle : i \in 1..Len(before) }
               ELSE after = before
  /\ (ret.op = "enact" /\ ret.result = "raised") => lin[ret.p] = ret.prev

C21_Witness ==
  /\ ret.op = "enact" /\ ret.result = "returned"
  /\ Len(ret.prev) = 2 /\ lin[ret.p] = ret.prev
  /\ ret.val = ret.prev[2].handle
  /\ Cardinality(ret.args[1]) > 1
\* C22: create_buffer and create_image leave both release lists of the pool
\* unchanged, and a purge releases nothing that is not on them; each
\* register_*_cleanup appends exactly one entry, the resource given, to the
\* list of its kind and changes nothing else in the pools or the native world.
C22_OnlyRegistrationFillsReleaseLists ==
  [][\A p \in Pools :
       /\ (\/ \E fail \in {"none", "vkCreateBuffer", "enact", "vmaAllocateMemory",
                           "vmaBindBufferMemory"} : create_buffer(p, fail)
           \/ \E key \in Props, fail \in {"none", "vkCreateImage", "enact",
                  "vmaAllocateMemory", "vmaBindImageMemory", "vkCreateImageView",
                  "vkCreateSampler"} : create_image(p, key, fail))
            => /\ pool'[p].buffer_.pool = pool[p].buffer_.pool
               /\ pool'[p].image_.pool = pool[p].image_.pool
       /\ \A r \in held :
            /\ register_buffer_cleanup(p, r) =>
                 /\ pool' = [pool EXCEPT ![p].buffer_.pool = Append(@, r)]
                 /\ vk' = vk
            /\ register_image_cleanup(p, r) =>
                 /\ pool' = [pool EXCEPT ![p].image_.pool = Append(@, r)]
                 /\ vk' = vk
       /\ (PurgeRelease /\ pc.p = p) =>
            (vk.objects \ vk'.objects) \subseteq
              (Handles(pool[p].buffer_.pool) \cup Handles(pool[p].image_.pool))]_vars

C22_Witness ==
  /\ ret.op = "purge" /\ ret.result = "returned" /\ ret.released # {}
  /\ \E r \in held : /\ r.handle \in vk.objects
                     /\ r.handle \notin ret.released
                     /\ r \notin Range(pool[ret.p].buffer_.pool) \cup Range(pool[ret.p].image_.pool)
\* Some sampler is destroyed in the step.
SamplerDestroyed == vk.samplers \ vk'.samplers # {}

C24_ViewBeforeImage ==
  \A e \in vk.events : e[1] # "image_before_view" /\ e # <<"double_destroy_view", Null>>

C24_Witness ==
  /\ \E i \in held : /\ i.kind = "image" /\ i.view # Null
                     /\ i.view \notin vk.views /\ i.handle \notin vk.objects
  /\ \E e \in vk.events : e[1] = "null_destroy_call"
\* C25: a resource registered once with a pool is released exactly once: it
\* stays on exactly one release list while it is alive, a purge that returns
\* has released everything that was on the lists of its pool, whatever is no
\* longer alive was released by a pooled release, and no pooled release runs
\* twice on a resource, in a later purge of the pool or of a pool it was
\* moved into.
C25_RegisteredReleasedOnce ==
  /\ hist.twice = {}
  /\ \A e \in vk.events : e[1] # "double_destroy"
  /\ \A r \in held :
       /\ Cardinality({ <<q, i>> \in Pools \X (1..MaxObjects) :
            i <= Len(pool[q].buffer_.pool) /\ pool[q].buffer_.pool[i] = r }) <= 1
       /\ (\E q \in Pools : r \in Range(pool[q].buffer_.pool)) => r.handle \in vk.objects
       /\ r.handle \notin vk.objects => r.handle \in hist.released
  /\ (ret.op = "purge" /\ ret.result = "returned") =>
       /\ ret.released \cap vk.objects = {}
       /\ pool[ret.p].buffer_.pool = <<>>

EpochNext ==
  \/ PoolCtor("b")
  \/ \E dst \in Pools, src \in Pools : PoolMoveAssign(dst, src)
  \/ fence("a")
  \/ \E id \in 0..(MaxFences - 1) : FenceHandle("a", id)
  \/ \E id \in 0..(MaxFences - 1) : FenceWaitCall("a", id)
  \/ \E ok \in BOOLEAN : FenceWaitReturn(ok)
  \/ \E result \in {"VK_TIMEOUT", "VK_ERROR_DEVICE_LOST"} : FenceWaitRaise(result)
  \/ \E f \in FenceIds : DeviceSignal(f)
  \/ PurgeCall("a")
  \/ PurgeWait
  \/ PurgeWaitRaise
  \/ \E ok \in BOOLEAN : PurgeReset(ok)
  \/ PurgeClearWaitlist
  \/ PurgeRelease

SpecEpoch == FenceInit /\ [][EpochNext]_vars

\* The slots of the fence array of an Active pool hold distinct native fences
\* and the in-use counter addresses at most the last of them.
SlotsDistinct ==
  /\ InUseWithinSlots
  /\ \A p \in Pools : Active(p) =>
       \A f \in FenceIds : Count(pool[p].fence_.pool, f) <= 1

\* A wait that returns touches the fence of its own handle only: every other
\* fence keeps its entries on the wait-list and its signaled state.
WaitTouchesOwnFence ==
  (pc.op = "wait_block" /\ pc'.op = "idle") =>
     \A g \in FenceIds \ {pc.f} :
        /\ Count(pool'[pc.p].fence_.waitlist, g) = Count(pool[pc.p].fence_.waitlist, g)
        /\ (g \in vk'.signaled) = (g \in vk.signaled)

\* Within an epoch fence(p) returns the counter and adds one to it, the
\* counter changes otherwise only in the purge that sets it to zero, and every
\* slot keeps the native fence it holds.
EpochStep(p) ==
  /\ fence(p) => /\ ret'.val = pool[p].fence_.in_use
                 /\ pool'[p].fence_.in_use = pool[p].fence_.in_use + 1
  /\ (pool'[p].fence_.in_use # pool[p].fence_.in_use /\ ~fence(p)) =>
        (PurgeRelease /\ pc.p = p /\ pool'[p].fence_.in_use = 0)
  /\ \A i \in 1..Len(pool[p].fence_.pool) :
        /\ i <= Len(pool'[p].fence_.pool)
        /\ pool'[p].fence_.pool[i] = pool[p].fence_.pool[i]

\* C26 as stated: between two purges of a pool successive fence() calls
\* return the indices 0, 1, 2, ... of slots holding distinct native fences,
\* so two handles of one epoch never share a native fence, and a wait through
\* one handle leaves the fences of the other handles on the wait-list and in
\* their signaled state.
C26_EpochIndicesDistinct ==
  /\ []SlotsDistinct
  /\ [][WaitTouchesOwnFence]_vars
  /\ [][\A p \in Pools : (Active(p) /\ Active(p)') => EpochStep(p)]_vars

\* C26 amended: the same, between two purges of a pool with no
\* move-assignment onto the pool in between; a move-assignment replaces the
\* fence array and the counter by those of the source, so that indices
\* handed out before it address the fences of the source.
C26_EpochIndicesDistinctButMove ==
  /\ []SlotsDistinct
  /\ [][WaitTouchesOwnFence]_vars
  /\ [][\A p \in Pools : (Active(p) /\ Active(p)') =>
           \/ \E src \in Pools \ {p} : PoolMoveAssign(p, src)
           \/ EpochStep(p)]_vars

C26_Witness ==
  /\ ret.op = "wait" /\ ret.result = "returned" /\ Len(ret.log) = 3
  /\ pool["a"].fence_.in_use = MaxFences
  /\ pool["a"].fence_.waitlist # <<>>
  /\ ret.val \notin Range(pool["a"].fence_.waitlist)

\* ---------------------------------------------------------------------------
\* VulkanFence objects: construction, moves, submission, wait, destruction.

VFenceInit ==
  /\ vk = VkInit
  /\ pool = [p \in Pools |-> UnbornPool]
  /\ pc = IdlePc
  /\ held = {}
  /\ ret = NoRet
  /\ hist = HistInit({})
  /\ NoCaches
  /\ NoObjects
  /\ NoMaps
  /\ NoPolicies
  /\ NoFences

VFenceNext ==
  \/ \E o \in FObjs : VulkanFenceDefault(o)
  \/ \E o \in FObjs, ok \in BOOLEAN : VulkanFenceCtor(o, ok)
  \/ \E o \in FObjs, other \in FObjs : VulkanFenceMoveCtor(o, other)
  \/ \E o \in FObjs, other \in FObjs : VulkanFenceMoveAssign(o, other)
  \/ \E o \in FObjs : VulkanFenceDtor(o)
  \/ \E o \in FObjs : get_submit_handle(o)
  \/ \E o \in FObjs, result \in {"VK_SUCCESS", "VK_ERROR_DEVICE_LOST"} :
        VulkanFenceWait(o, result)
  \/ \E f \in FenceIds : DeviceSignal(f)

SpecVFence == VFenceInit /\ [][VFenceNext]_vars

\* The native fences owned by the VulkanFence objects alive.
OwnedFences == { vfn[o].handle_ : o \in { x \in FObjs : vfn[x].life = "live" } } \ {Null}

\* C27: each native fence created is destroyed exactly once: a native fence
\* not yet destroyed is owned by exactly one live VulkanFence, whose
\* destructor destroys it, no fence is destroyed twice, and a moved-from or
\* default-constructed VulkanFence owns none; VulkanFence::wait changes
\* nothing when the fence is not marked waiting and leaves it not waiting
\* when it returns.
C27_NativeFenceDestroyedOnce ==
  /\ [](/\ vk.fences \subseteq OwnedFences
        /\ OwnedFences \subseteq vk.fences
        /\ \A o \in FObjs, x \in FObjs :
             (o # x /\ vfn[o].life = "live" /\ vfn[x].life = "live"
                /\ vfn[o].handle_ # Null) => vfn[o].handle_ # vfn[x].handle_
        /\ \A e \in vk.events : e[1] # "double_destroy_fence")
  /\ [][\A o \in FObjs :
          VulkanFenceWait(o, "VK_SUCCESS") =>
             /\ ~vfn'[o].waiting_
             /\ ~vfn[o].waiting_ => UNCHANGED <<vk, vfn>>]_vars
====
